---- MODULE Spec2Model ----
(***************************************************************************)
(* Subscription state reconciliation of dataviz-api: the Stripe webhook    *)
(* endpoint and its event handlers, the subscription upsert, the expiry    *)
(* sweeper and the checkout session builder, over the subscriptions table. *)
(***************************************************************************)
EXTENDS Integers, Sequences, FiniteSets, TLC

\* ------------------------------------------------------------------------
\* Values
\* ------------------------------------------------------------------------

\* JavaScript null / undefined for string-valued and for time-valued fields.
Null == "null"
Undef == "undefined"
NullT == -1
UndefT == -2

Users == {"u1"}
CustomerIds == {"cus_1"}
SubscriptionIds == {"sub_1"}

\* Stripe.Subscription.Status, plus a status the switch does not know and
\* an absent status.
StripeStatuses ==
    {"active", "trialing", "past_due", "unpaid", "incomplete",
     "incomplete_expired", "canceled", "paused", Null}

\* The largest epoch second a provider object carries (0 is "no period end").
MaxEpoch == 1
Epochs == 0 .. MaxEpoch

\* plans table: stripe_price_id -> id. price_X is a price without a plan.
PriceIds == {"price_A", "price_X"}
Plans == [price_A |-> "starter"]

Columns ==
    {"user_id", "stripe_customer_id", "stripe_subscription_id", "status",
     "plan_id", "current_period_end", "cancel_at_period_end", "created_at",
     "updated_at"}

\* Column defaults of a row the payload does not fill.
ColumnDefaults ==
    [user_id |-> Null, stripe_customer_id |-> Null,
     stripe_subscription_id |-> Null, status |-> "none", plan_id |-> Null,
     current_period_end |-> NullT, cancel_at_period_end |-> "false",
     created_at |-> NullT, updated_at |-> NullT]

\* ------------------------------------------------------------------------
\* State
\* ------------------------------------------------------------------------
VARIABLES
    subscriptions,  \* the subscriptions table: a sequence of rows
    checkout,       \* the checkout-session request in flight, or NoRequest
    me,             \* the /me request in flight, or NoRequest
    cron,           \* the scheduled sweep in flight, or NoRequest
    out,            \* the response last written, Idle once it is sent
    sweep           \* the sweeps that run together: the table they started
                    \* on, their instants, and the batch sweep that waits

vars == <<subscriptions, checkout, me, cron, out, sweep>>

\* ------------------------------------------------------------------------
\* Persistence primitives (supabase-js query builder on "subscriptions")
\* ------------------------------------------------------------------------

RowsOf(table, userId) == {i \in 1 .. Len(table) : table[i].user_id = userId}

Merge(row, payload) ==
    [c \in Columns |-> IF c \in DOMAIN payload THEN payload[c] ELSE row[c]]

\* DbUpsert without its conflict target: a plain insert, which adds a row
\* whether or not one has the user_id.
DbUpsertAppend(table, payload) ==
    Append(table, Merge(ColumnDefaults, payload))

\* DbUpsert that leaves a canceled row as it is.
DbUpsertUnlessCanceled(table, payload) ==
    IF RowsOf(table, payload.user_id) = {}
    THEN Append(table, Merge(ColumnDefaults, payload))
    ELSE [i \in 1 .. Len(table) |->
            IF table[i].user_id = payload.user_id
               /\ table[i].status # "canceled"
            THEN Merge(table[i], payload) ELSE table[i]]

\* .upsert(payload, { onConflict: "user_id" }): insert if no row has the
\* user_id, else update the payload's columns of the conflicting row.
DbUpsert(table, payload) ==
    IF RowsOf(table, payload.user_id) = {}
    THEN Append(table, Merge(ColumnDefaults, payload))
    ELSE [i \in 1 .. Len(table) |->
            IF table[i].user_id = payload.user_id
            THEN Merge(table[i], payload) ELSE table[i]]

\* .insert(payload): fails on the unique constraint when a row has the
\* user_id.
DbInsert(table, payload) ==
    IF RowsOf(table, payload.user_id) = {}
    THEN [table |-> Append(table, Merge(ColumnDefaults, payload)),
          error |-> FALSE]
    ELSE [table |-> table, error |-> TRUE]

\* DbUpdate that writes the columns it is not given as their defaults.
DbUpdateAllColumns(table, payload, rows) ==
    [i \in 1 .. Len(table) |->
       IF i \in rows
       THEN Merge([ColumnDefaults EXCEPT !.user_id = table[i].user_id],
                  payload)
       ELSE table[i]]

\* .update(payload) with filters: every row the filters match (rows: the
\* positions of the matching rows).
DbUpdate(table, payload, rows) ==
    [i \in 1 .. Len(table) |->
       IF i \in rows THEN Merge(table[i], payload) ELSE table[i]]

NoRow == [user_id |-> Null]

\* .select("*").eq("user_id", userId).maybeSingle(): the row, null when
\* there is none, an error (and null) when there are several or when the
\* query fails.
DbSelect(table, userId, fails) ==
    LET rows == RowsOf(table, userId)
    IN  IF fails \/ Cardinality(rows) > 1
        THEN [data |-> NoRow, error |-> TRUE]
        ELSE IF rows = {} THEN [data |-> NoRow, error |-> FALSE]
        ELSE [data |-> table[CHOOSE i \in rows : TRUE], error |-> FALSE]

\* .lt("current_period_end", nowIso): a null column matches no comparison.
DbLt(value, bound) == value # NullT /\ value < bound

\* ------------------------------------------------------------------------
\* webhook-helpers.ts
\* ------------------------------------------------------------------------

\* SubscriptionStatus (types.ts).
SubscriptionStatus ==
    {"none", "active", "past_due", "canceled", "incomplete", "trialing"}

\* The conversion that keeps the seconds.
toIsoSeconds(epochSeconds) ==
    IF epochSeconds = NullT \/ epochSeconds = UndefT \/ epochSeconds = 0
    THEN NullT ELSE epochSeconds

toIso(epochSeconds) ==
    IF epochSeconds = NullT \/ epochSeconds = UndefT \/ epochSeconds = 0
    THEN NullT ELSE epochSeconds * 1000

\* mapStripeStatus without its "unpaid" case.
mapStripeStatusWithoutUnpaid(status) ==
    CASE status = "active" -> "active"
      [] status = "trialing" -> "trialing"
      [] status = "past_due" -> "past_due"
      [] status = "incomplete" -> "incomplete"
      [] status = "incomplete_expired" -> "canceled"
      [] status = "canceled" -> "canceled"
      [] OTHER -> "none"

\* mapStripeStatus that stores the Stripe status as it comes.
mapStripeStatusRaw(status) ==
    IF status = Null \/ status = Undef THEN "none" ELSE status

mapStripeStatus(status) ==
    CASE status = "active" -> "active"
      [] status = "trialing" -> "trialing"
      [] status = "past_due" -> "past_due"
      [] status = "incomplete" -> "incomplete"
      [] status = "incomplete_expired" -> "canceled"
      [] status = "unpaid" -> "past_due"
      [] status = "canceled" -> "canceled"
      [] OTHER -> "none"

\* resolvePlanId that answers null, not undefined, when it finds no plan.
resolvePlanIdOrNull(priceId, lookupFails) ==
    IF priceId = Null \/ priceId = Undef THEN Null
    ELSE IF lookupFails THEN Null
    ELSE IF priceId \in DOMAIN Plans THEN Plans[priceId] ELSE Null

\* lookupFails: the plans query returns an error.
resolvePlanId(priceId, lookupFails) ==
    IF priceId = Null \/ priceId = Undef THEN Undef
    ELSE IF lookupFails THEN Undef
    ELSE IF priceId \in DOMAIN Plans THEN Plans[priceId] ELSE Undef

\* A Stripe.Subscription as the handlers read it. NoSubscription stands for
\* a null subscription.
NoSubscription ==
    [id |-> Null, customer |-> Null, status |-> Null, current_period_end |-> 0,
     cancel_at_period_end |-> "false", metadata_user_id |-> Null,
     price |-> Null]

\* Outcome of stripe.customers.retrieve: it throws, or it yields the
\* customer's metadata.user_id (Null when the tag is missing).
Throws == "throws"
NotCalled == "not_called"

\* getUserIdFromCustomer asking the customer first.
getUserIdFromCustomerFirst(customerId, subscription, customerMeta) ==
    IF customerId # Null /\ customerMeta \notin {Throws, Null}
    THEN [userId |-> customerMeta, retrieved |-> TRUE]
    ELSE [userId |-> subscription.metadata_user_id,
          retrieved |-> customerId # Null]

\* subscription.metadata.user_id first, then the customer's metadata.
getUserIdFromCustomer(customerId, subscription, customerMeta) ==
    IF subscription.metadata_user_id # Null
    THEN [userId |-> subscription.metadata_user_id, retrieved |-> FALSE]
    ELSE IF customerId = Null
    THEN [userId |-> Null, retrieved |-> FALSE]
    ELSE IF customerMeta = Throws
    THEN [userId |-> Null, retrieved |-> TRUE]
    ELSE [userId |-> customerMeta, retrieved |-> TRUE]

Field(present, column, value) ==
    LET
        EmptyPayload == [c \in {} |-> Null]
    IN
        IF present THEN column :> value ELSE EmptyPayload

\* upsertSubscription without its "!== undefined" tests: the payload
\* carries every column, null for a param left out.
upsertPayloadEveryColumn(params) ==
    [user_id |-> params.userId,
     stripe_customer_id |->
         IF params.customerId = Undef THEN Null ELSE params.customerId,
     stripe_subscription_id |->
         IF params.subscriptionId = Undef THEN Null ELSE params.subscriptionId,
     status |-> IF params.status = Undef THEN Null ELSE params.status,
     current_period_end |->
         IF params.currentPeriodEnd = UndefT THEN NullT
         ELSE params.currentPeriodEnd,
     cancel_at_period_end |->
         IF params.cancelAtPeriodEnd = Undef THEN Null
         ELSE params.cancelAtPeriodEnd,
     plan_id |-> IF params.planId = Undef \/ params.planId = Null
                 THEN "pro_monthly" ELSE params.planId]

\* The payload upsertSubscription builds from its params.
upsertPayload(params) ==
    [user_id |-> params.userId]
    @@ Field(params.customerId # Undef, "stripe_customer_id", params.customerId)
    @@ Field(params.subscriptionId # Undef, "stripe_subscription_id",
             params.subscriptionId)
    @@ Field(params.status # Undef, "status", params.status)
    @@ Field(params.currentPeriodEnd # UndefT, "current_period_end",
             params.currentPeriodEnd)
    @@ Field(params.cancelAtPeriodEnd # Undef, "cancel_at_period_end",
             params.cancelAtPeriodEnd)
    @@ Field(params.planId # Undef, "plan_id",
             IF params.planId = Null THEN "pro_monthly" ELSE params.planId)

\* upsertSubscription with a plain insert in place of the upsert: it throws
\* when a row has the user_id.
upsertSubscriptionInsert(table, params, dbFails) ==
    LET r == DbInsert(table, upsertPayload(params))
    IN  [table |-> r.table, threw |-> dbFails \/ r.error,
         payload |-> upsertPayload(params)]

\* dbFails: the upsert returns an error, which upsertSubscription throws.
upsertSubscription(table, params, dbFails) ==
    IF dbFails
    THEN [table |-> table, threw |-> TRUE, payload |-> upsertPayload(params)]
    ELSE [table |-> DbUpsert(table, upsertPayload(params)), threw |-> FALSE,
          payload |-> upsertPayload(params)]

\* ------------------------------------------------------------------------
\* webhook-handlers.ts
\* ------------------------------------------------------------------------

\* a ?? b on string-valued expressions.
Coalesce(a, b) == IF a = Null \/ a = Undef THEN b ELSE a

\* toIso(...) without the "?? undefined" that follows it.
CoalesceTFirst(a, b) == a

\* a ?? b on time-valued expressions.
CoalesceT(a, b) == IF a = NullT \/ a = UndefT THEN b ELSE a

NoParams == [userId |-> Null]

\* What a handler did: the table it leaves, whether it threw, whether it
\* called upsertSubscription ("none", "ok", "failed"), the params it passed,
\* the Stripe status it mapped, the price id it resolved the plan from, and
\* whether it asked Stripe for the customer.
Handled(table, threw, upsert, params, stripeStatus, priceId, retrieved) ==
    [table |-> table, threw |-> threw, upsert |-> upsert, params |-> params,
     stripeStatus |-> stripeStatus, priceId |-> priceId,
     retrieved |-> retrieved]

\* A handler that throws for an event whose user it cannot resolve.
SkippedThrows(table, retrieved) ==
    Handled(table, TRUE, "none", NoParams, Undef, Undef, retrieved)

Skipped(table, retrieved) ==
    Handled(table, FALSE, "none", NoParams, Undef, Undef, retrieved)

Upserted(table, params, dbFails, swallow, stripeStatus, priceId, retrieved) ==
    LET r == upsertSubscription(table, params, dbFails)
    IN  Handled(r.table, r.threw /\ ~swallow,
                IF r.threw THEN "failed" ELSE "ok", params, stripeStatus,
                priceId, retrieved)

\* handleCheckoutCompleted that returns when the subscription cannot be
\* retrieved.
handleCheckoutCompletedOrReturn(table, session, fetched, fetchFails, lookupFails, dbFails) ==
    LET userId == session.metadata_user_id
        customerId == Coalesce(session.customer, Null)
        subscriptionId == Coalesce(session.subscription, Null)
        priceId == Coalesce(fetched.price, session.line_price)
        params ==
            [userId |-> userId,
             customerId |-> customerId,
             subscriptionId |-> subscriptionId,
             status |-> mapStripeStatus(fetched.status),
             currentPeriodEnd |->
                 CoalesceT(toIso(fetched.current_period_end), UndefT),
             cancelAtPeriodEnd |-> fetched.cancel_at_period_end,
             planId |-> resolvePlanId(priceId, lookupFails)]
    IN  IF userId = Null \/ userId = Undef \/ customerId = Null
        THEN Skipped(table, FALSE)
        ELSE IF subscriptionId = Null \/ fetchFails
        THEN Skipped(table, FALSE)
        ELSE Upserted(table, params, dbFails, TRUE, fetched.status, priceId,
                      FALSE)

\* session: the Checkout.Session of the event. fetched / fetchFails: what
\* stripe.subscriptions.retrieve yields.
handleCheckoutCompleted(table, session, fetched, fetchFails, lookupFails, dbFails) ==
    LET userId == session.metadata_user_id
        customerId == Coalesce(session.customer, Null)
        subscriptionId == Coalesce(session.subscription, Null)
        got == subscriptionId # Null /\ ~fetchFails
        priceId == IF got THEN Coalesce(fetched.price, session.line_price)
                   ELSE Undef
        stripeStatus == IF got THEN fetched.status ELSE "active"
        params ==
            [userId |-> userId,
             customerId |-> customerId,
             subscriptionId |-> subscriptionId,
             status |-> mapStripeStatus(stripeStatus),
             currentPeriodEnd |->
                 IF got THEN CoalesceT(toIso(fetched.current_period_end), UndefT)
                 ELSE UndefT,
             cancelAtPeriodEnd |->
                 IF got THEN fetched.cancel_at_period_end ELSE "false",
             planId |-> IF got THEN resolvePlanId(priceId, lookupFails)
                        ELSE Undef]
    IN  IF userId = Null \/ userId = Undef \/ customerId = Null
        THEN Skipped(table, FALSE)
        ELSE Upserted(table, params, dbFails, TRUE, stripeStatus, priceId,
                      FALSE)

\* subscription: the Stripe.Subscription of the event. customerMeta: what
\* stripe.customers.retrieve yields.
handleSubscriptionUpdated(table, subscription, customerMeta, lookupFails, dbFails) ==
    LET customerId == Coalesce(subscription.customer, Null)
        who == getUserIdFromCustomer(customerId, subscription, customerMeta)
        priceId == subscription.price
        stripeStatus == subscription.status
        params ==
            [userId |-> who.userId,
             customerId |-> customerId,
             subscriptionId |-> subscription.id,
             status |-> mapStripeStatus(stripeStatus),
             currentPeriodEnd |->
                 CoalesceT(toIso(subscription.current_period_end), UndefT),
             cancelAtPeriodEnd |-> subscription.cancel_at_period_end,
             planId |-> resolvePlanId(priceId, lookupFails)]
    IN  IF who.userId = Null
        THEN Skipped(table, who.retrieved)
        ELSE Upserted(table, params, dbFails, FALSE, stripeStatus, priceId,
                      who.retrieved)

\* handleSubscriptionDeleted that clears the subscription id and the period
\* end of the record.
handleSubscriptionDeletedClearing(table, subscription, customerMeta, lookupFails, dbFails) ==
    LET customerId == Coalesce(subscription.customer, Null)
        who == getUserIdFromCustomer(customerId, subscription, customerMeta)
        priceId == subscription.price
        stripeStatus == Coalesce(subscription.status, "canceled")
        params ==
            [userId |-> who.userId,
             customerId |-> customerId,
             subscriptionId |-> Null,
             status |-> mapStripeStatus(stripeStatus),
             currentPeriodEnd |-> NullT,
             cancelAtPeriodEnd |-> subscription.cancel_at_period_end,
             planId |-> resolvePlanId(priceId, lookupFails)]
    IN  IF who.userId = Null
        THEN Skipped(table, who.retrieved)
        ELSE Upserted(table, params, dbFails, FALSE, stripeStatus, priceId,
                      who.retrieved)

handleSubscriptionDeleted(table, subscription, customerMeta, lookupFails, dbFails) ==
    LET customerId == Coalesce(subscription.customer, Null)
        who == getUserIdFromCustomer(customerId, subscription, customerMeta)
        priceId == subscription.price
        stripeStatus == Coalesce(subscription.status, "canceled")
        params ==
            [userId |-> who.userId,
             customerId |-> customerId,
             subscriptionId |-> subscription.id,
             status |-> mapStripeStatus(stripeStatus),
             currentPeriodEnd |->
                 CoalesceT(toIso(subscription.current_period_end), UndefT),
             cancelAtPeriodEnd |-> subscription.cancel_at_period_end,
             planId |-> resolvePlanId(priceId, lookupFails)]
    IN  IF who.userId = Null
        THEN Skipped(table, who.retrieved)
        ELSE Upserted(table, params, dbFails, FALSE, stripeStatus, priceId,
                      who.retrieved)

\* invoice: the Stripe.Invoice of the event.
handleInvoicePaymentSucceeded(table, invoice, fetched, fetchFails, customerMeta, lookupFails, dbFails) ==
    LET subscriptionId == Coalesce(invoice.subscription, Null)
        customerId == Coalesce(invoice.customer, Null)
        subscription == IF subscriptionId # Null /\ ~fetchFails
                        THEN fetched ELSE NoSubscription
        has == subscription # NoSubscription
        who == getUserIdFromCustomer(customerId, subscription, customerMeta)
        priceId == Coalesce(invoice.line_price,
                            IF has THEN subscription.price ELSE Undef)
        stripeStatus == IF has THEN subscription.status ELSE "active"
        params ==
            [userId |-> who.userId,
             customerId |-> customerId,
             subscriptionId |-> subscriptionId,
             status |-> mapStripeStatus(stripeStatus),
             currentPeriodEnd |->
                 IF has
                 THEN CoalesceT(toIso(subscription.current_period_end), UndefT)
                 ELSE UndefT,
             cancelAtPeriodEnd |->
                 IF has THEN Coalesce(subscription.cancel_at_period_end, "false")
                 ELSE "false",
             planId |-> resolvePlanId(priceId, lookupFails)]
    IN  IF who.userId = Null
        THEN Skipped(table, who.retrieved)
        ELSE Upserted(table, params, dbFails, FALSE, stripeStatus, priceId,
                      who.retrieved)

\* handleInvoicePaymentFailed that stores past_due whatever the subscription
\* says, and reads the price of the subscription before the invoice's.
handleInvoicePaymentFailedFlat(table, invoice, fetched, fetchFails, customerMeta, lookupFails, dbFails) ==
    LET subscriptionId == Coalesce(invoice.subscription, Null)
        customerId == Coalesce(invoice.customer, Null)
        subscription == IF subscriptionId # Null /\ ~fetchFails
                        THEN fetched ELSE NoSubscription
        has == subscription # NoSubscription
        who == getUserIdFromCustomer(customerId, subscription, customerMeta)
        priceId == Coalesce(IF has THEN subscription.price ELSE Null,
                            invoice.line_price)
        params ==
            [userId |-> who.userId,
             customerId |-> customerId,
             subscriptionId |-> subscriptionId,
             status |-> mapStripeStatus("past_due"),
             currentPeriodEnd |->
                 IF has
                 THEN CoalesceT(toIso(subscription.current_period_end), UndefT)
                 ELSE UndefT,
             cancelAtPeriodEnd |->
                 IF has THEN Coalesce(subscription.cancel_at_period_end, "false")
                 ELSE "false",
             planId |-> resolvePlanId(priceId, lookupFails)]
    IN  IF who.userId = Null
        THEN Skipped(table, who.retrieved)
        ELSE Upserted(table, params, dbFails, FALSE, "past_due", priceId,
                      who.retrieved)

handleInvoicePaymentFailed(table, invoice, fetched, fetchFails, customerMeta, lookupFails, dbFails) ==
    LET subscriptionId == Coalesce(invoice.subscription, Null)
        customerId == Coalesce(invoice.customer, Null)
        subscription == IF subscriptionId # Null /\ ~fetchFails
                        THEN fetched ELSE NoSubscription
        has == subscription # NoSubscription
        who == getUserIdFromCustomer(customerId, subscription, customerMeta)
        priceId == Coalesce(invoice.line_price,
                            IF has THEN subscription.price ELSE Undef)
        stripeStatus == IF has THEN Coalesce(subscription.status, "past_due")
                        ELSE "past_due"
        params ==
            [userId |-> who.userId,
             customerId |-> customerId,
             subscriptionId |-> subscriptionId,
             status |-> mapStripeStatus(stripeStatus),
             currentPeriodEnd |->
                 IF has
                 THEN CoalesceT(toIso(subscription.current_period_end), UndefT)
                 ELSE UndefT,
             cancelAtPeriodEnd |->
                 IF has THEN Coalesce(subscription.cancel_at_period_end, "false")
                 ELSE "false",
             planId |-> resolvePlanId(priceId, lookupFails)]
    IN  IF who.userId = Null
        THEN Skipped(table, who.retrieved)
        ELSE Upserted(table, params, dbFails, FALSE, stripeStatus, priceId,
                      who.retrieved)

\* ------------------------------------------------------------------------
\* stripe-webhook.ts: the endpoint
\* ------------------------------------------------------------------------

\* A webhook request carries the Stripe event and, with it, what Stripe and
\* the database answer while it is handled:
\*   got          stripe.subscriptions.retrieve (NotAsked when not called)
\*   customerMeta stripe.customers.retrieve
\*   lookupFails  the plans query errors
\*   dbFails      the subscriptions upsert errors
\* An answer to a call the handler does not make, and a payload field it
\* does not read, has one fixed value: so has all a handler would read after
\* the return it takes for an event whose user it cannot resolve.

SubscriptionObjects(id, customers, users, prices) ==
    [id : {id}, customer : customers, status : StripeStatuses,
     current_period_end : Epochs, cancel_at_period_end : {"true", "false"},
     metadata_user_id : users, price : prices]

NotAsked == [sub |-> NoSubscription, fails |-> FALSE]

Retrieved(ref, customer, users, prices) ==
    LET
        RetrieveFailed == [sub |-> NoSubscription, fails |-> TRUE]
    IN
        IF ref = Null THEN {NotAsked}
        ELSE {RetrieveFailed}
             \cup [sub : SubscriptionObjects(ref, {customer}, users, prices),
                   fails : {FALSE}]

CustomerMetas(customerId, subscription) ==
    IF subscription.metadata_user_id # Null \/ customerId = Null
    THEN {NotCalled}
    ELSE {Throws, Null} \cup Users

\* The plans query can fail; for a price without a plan it answers
\* undefined whether it fails or not.
LookupOutcomes(priceId) ==
    IF priceId \in DOMAIN Plans THEN BOOLEAN ELSE {FALSE}

\* The subscription of an event whose user is not resolved.
Unread(subscription) ==
    IF subscription = NoSubscription THEN NoSubscription
    ELSE [NoSubscription EXCEPT !.id = subscription.id,
                                !.customer = subscription.customer]

Event(kind, data, got, customerMeta, lookupFails, dbFails) ==
    [kind |-> kind, data |-> data, got |-> got, customerMeta |-> customerMeta,
     lookupFails |-> lookupFails, dbFails |-> dbFails]

Session(userId, customer, subscription, linePrice) ==
    [metadata_user_id |-> userId, customer |-> customer,
     subscription |-> subscription, line_price |-> linePrice]

Invoice(subscription, customer, linePrice) ==
    [subscription |-> subscription, customer |-> customer,
     line_price |-> linePrice]

\* The session's line item price is read only when the retrieved
\* subscription has no price; the subscription's metadata is not read.
CheckoutEventsOf(userId, customer, ref, got) ==
    UNION {
      {Event("checkout.session.completed",
             Session(userId, customer, ref, linePrice), got, NotCalled,
             lookupFails, dbFails) :
         lookupFails \in
           (IF got.sub = NoSubscription THEN {FALSE}
            ELSE LookupOutcomes(Coalesce(got.sub.price, linePrice))),
         dbFails \in BOOLEAN} :
      linePrice \in
        (IF got.sub # NoSubscription /\ got.sub.price = Null
         THEN PriceIds \cup {Undef} ELSE {Undef})}

CheckoutEvents ==
    UNION {
      IF userId = Null \/ customer = Null
      THEN {Event("checkout.session.completed",
                  Session(userId, customer, ref, Undef), NotAsked, NotCalled,
                  FALSE, FALSE)}
      ELSE UNION {CheckoutEventsOf(userId, customer, ref, got) :
                    got \in Retrieved(ref, customer, {Null},
                                      PriceIds \cup {Null})} :
      userId \in Users \cup {Null}, customer \in CustomerIds \cup {Null},
      ref \in SubscriptionIds \cup {Null}}

SubscriptionEventsOf(kind, subscription) ==
    UNION {
      IF getUserIdFromCustomer(subscription.customer, subscription,
                               customerMeta).userId = Null
      THEN {Event(kind, Unread(subscription), NotAsked, customerMeta, FALSE,
                  FALSE)}
      ELSE {Event(kind, subscription, NotAsked, customerMeta, lookupFails,
                  dbFails) :
              lookupFails \in LookupOutcomes(subscription.price),
              dbFails \in BOOLEAN} :
      customerMeta \in CustomerMetas(subscription.customer, subscription)}

SubscriptionEvents(kind) ==
    UNION {SubscriptionEventsOf(kind, subscription) :
             subscription \in
               UNION {SubscriptionObjects(id, CustomerIds \cup {Null},
                                          Users \cup {Null},
                                          PriceIds \cup {Null}) :
                        id \in SubscriptionIds}}

\* The subscription's price is read only when the invoice has no line item
\* price.
InvoiceEventsOf(kind, invoice, got) ==
    UNION {
      IF getUserIdFromCustomer(invoice.customer, got.sub,
                               customerMeta).userId = Null
      THEN {Event(kind, Invoice(invoice.subscription, invoice.customer, Null),
                  [got EXCEPT !.sub = Unread(got.sub)], customerMeta, FALSE,
                  FALSE)}
      ELSE {Event(kind, invoice, got, customerMeta, lookupFails, dbFails) :
              lookupFails \in
                LookupOutcomes(Coalesce(invoice.line_price, got.sub.price)),
              dbFails \in BOOLEAN} :
      customerMeta \in CustomerMetas(invoice.customer, got.sub)}

InvoiceEvents(kind) ==
    UNION {
      UNION {InvoiceEventsOf(kind, Invoice(ref, customer, linePrice), got) :
               got \in Retrieved(ref, customer, Users \cup {Null},
                                 IF linePrice = Null
                                 THEN PriceIds \cup {Null} ELSE {Null})} :
      ref \in SubscriptionIds \cup {Null}, customer \in CustomerIds \cup {Null},
      linePrice \in PriceIds \cup {Null}}

OtherEvents ==
    {Event("customer.created", NoSubscription, NotAsked, NotCalled, FALSE,
           FALSE)}

SubscriptionUpdatedEvents ==
    SubscriptionEvents("customer.subscription.updated")

SubscriptionDeletedEvents ==
    SubscriptionEvents("customer.subscription.deleted")

InvoicePaymentSucceededEvents == InvoiceEvents("invoice.payment_succeeded")

InvoicePaymentFailedEvents == InvoiceEvents("invoice.payment_failed")

\* The events of the five handled kinds.
HandledEvents ==
    CheckoutEvents \cup SubscriptionUpdatedEvents
      \cup SubscriptionDeletedEvents \cup InvoicePaymentSucceededEvents
      \cup InvoicePaymentFailedEvents

Request(method, signature, event) ==
    [method |-> method, signature |-> signature, event |-> event]

NoRequest == [method |-> Null]

\* The requests Stripe sends for a set of events: signed POSTs.
WebhookRequests(events) ==
    {Request(m, "valid", e) : m \in {"POST"}, e \in events}

\* A response: the endpoint, the HTTP status, and what the request did.
Respond(op, http, did) == [op |-> op, http |-> http, did |-> did]

Idle == Respond("none", 0, [x \in {} |-> 0])

\* What a webhook request did: the handler's result without the table.
Did(r) ==
    [upsert |-> r.upsert, params |-> r.params,
     stripeStatus |-> r.stripeStatus, priceId |-> r.priceId,
     retrieved |-> r.retrieved]

\* ------------------------------------------------------------------------
\* subscription-expiry.ts
\* ------------------------------------------------------------------------

\* A current_period_end that is a string new Date() cannot parse.
InvalidT == -3

\* new Date(current_period_end): the instant in milliseconds, null when the
\* column is null and when getTime() is NaN.
parsePeriodEnd(subscription) ==
    IF subscription.current_period_end = NullT THEN NullT
    ELSE IF subscription.current_period_end = InvalidT THEN NullT
    ELSE subscription.current_period_end

\* shouldExpireSubscription that expires at the period end, not after it.
shouldExpireSubscriptionAtEnd(subscription, now) ==
    IF subscription.status = "canceled" THEN FALSE
    ELSE IF parsePeriodEnd(subscription) = NullT
            \/ parsePeriodEnd(subscription) > now
    THEN FALSE
    ELSE IF subscription.status = "trialing" THEN TRUE
    ELSE subscription.cancel_at_period_end = "true"

shouldExpireSubscription(subscription, now) ==
    IF subscription.status = "canceled" THEN FALSE
    ELSE IF parsePeriodEnd(subscription) = NullT
            \/ parsePeriodEnd(subscription) >= now
    THEN FALSE
    ELSE IF subscription.status = "trialing" THEN TRUE
    ELSE subscription.cancel_at_period_end = "true"

\* The update with the plan of the overlay among its columns.
ExpireUpdateWithOverlay(table, subscription, now) ==
    DbUpdate(table, [status |-> "canceled", plan_id |-> "academia",
                     updated_at |-> now],
             RowsOf(table, subscription.user_id))

\* The update of expireSubscriptionIfNeeded without its user_id filter.
ExpireUpdateEveryUser(table, subscription, now) ==
    DbUpdate(table, [status |-> "canceled", updated_at |-> now],
             1 .. Len(table))

\* The update expireSubscriptionIfNeeded issues for an expired record.
ExpireUpdate(table, subscription, now) ==
    DbUpdate(table, [status |-> "canceled", updated_at |-> now],
             RowsOf(table, subscription.user_id))

\* ------------------------------------------------------------------------
\* Requests
\* ------------------------------------------------------------------------

\* No client request (checkout, /me, sweep) is in flight.
ClientsIdle == checkout = NoRequest /\ me = NoRequest /\ cron = NoRequest

\* A client request is between two of its steps. An event handled before
\* the first step of a request is an event handled before the request.
Started(req) == req # NoRequest /\ req.pc # "start"

\* The events delivered between two steps of a client request: subscription
\* updates that name the user in their metadata and meet no failure.
RacingEvents ==
    {e \in SubscriptionUpdatedEvents :
       /\ e.data.metadata_user_id # Null
       /\ e.data.customer # Null
       /\ e.data.price = Null
       /\ ~e.dbFails}

Delivered(events) ==
    LET
        ClientsRacing == Started(checkout) \/ Started(me) \/ Started(cron)
    IN
        IF ClientsIdle THEN events
        ELSE IF ClientsRacing THEN events \cap RacingEvents
        ELSE {}

\* No sweeps were started together.
NoSweep ==
    [start |-> <<>>, lazy |-> NullT, batch |-> {}, waiting |-> NoRequest]

Init ==
    /\ subscriptions = <<>>
    /\ checkout = NoRequest
    /\ me = NoRequest
    /\ cron = NoRequest
    /\ out = Idle
    /\ sweep = NoSweep

\* The response is sent; the next request can be answered.
ResponseSent ==
    /\ out # Idle
    /\ out' = Idle
    /\ UNCHANGED <<subscriptions, checkout, me, cron, sweep>>

\* ------------------------------------------------------------------------
\* stripe-webhook.ts: handler
\* ------------------------------------------------------------------------

Verified(req, kind) ==
    /\ req.method = "POST"
    /\ req.signature = "valid"
    /\ req.event.kind = kind

\* The switch of the endpoint: 500 when the handler throws, else 200.
Dispatch(kind, r) ==
    /\ subscriptions' = r.table
    /\ out' = Respond(kind, IF r.threw THEN 500 ELSE 200, Did(r))
    /\ UNCHANGED <<checkout, me, cron, sweep>>

HandledKinds ==
    {"checkout.session.completed", "customer.subscription.updated",
     "customer.subscription.deleted", "invoice.payment_succeeded",
     "invoice.payment_failed"}

\* The handler the switch runs for a verified event.
handleEvent(table, e) ==
    CASE e.kind = "checkout.session.completed" ->
           handleCheckoutCompleted(table, e.data, e.got.sub, e.got.fails,
                                   e.lookupFails, e.dbFails)
      [] e.kind = "customer.subscription.updated" ->
           handleSubscriptionUpdated(table, e.data, e.customerMeta,
                                     e.lookupFails, e.dbFails)
      [] e.kind = "customer.subscription.deleted" ->
           handleSubscriptionDeleted(table, e.data, e.customerMeta,
                                     e.lookupFails, e.dbFails)
      [] e.kind = "invoice.payment_succeeded" ->
           handleInvoicePaymentSucceeded(table, e.data, e.got.sub,
                                         e.got.fails, e.customerMeta,
                                         e.lookupFails, e.dbFails)
      [] e.kind = "invoice.payment_failed" ->
           handleInvoicePaymentFailed(table, e.data, e.got.sub, e.got.fails,
                                      e.customerMeta, e.lookupFails,
                                      e.dbFails)
      [] OTHER -> Skipped(table, FALSE)

\* The answer of the endpoint: the table it leaves, the HTTP status and what
\* the handler did.
Answer(r, http) == [table |-> r.table, http |-> http, did |-> Did(r)]

\* The endpoint with the switch ahead of the signature checks.
stripeWebhookUnverified(table, req) ==
    IF req.method # "POST" THEN Answer(Skipped(table, FALSE), 405)
    ELSE LET r == handleEvent(table, req.event)
         IN  Answer(r, IF r.threw THEN 500 ELSE 200)

\* The endpoint: 405 for a request that is not a POST, 400 for a missing
\* signature header and for a signature constructEvent rejects, and the
\* switch only after both.
stripeWebhook(table, req) ==
    IF req.method # "POST" THEN Answer(Skipped(table, FALSE), 405)
    ELSE IF req.signature = "missing"
    THEN Answer(Skipped(table, FALSE), 400)
    ELSE IF req.signature # "valid"
    THEN Answer(Skipped(table, FALSE), 400)
    ELSE LET r == handleEvent(table, req.event)
         IN  Answer(r, IF r.threw THEN 500 ELSE 200)

\* The requests the endpoint answers before the switch, whatever event they
\* carry.
RejectedRequests(events) ==
    {Request(m, sg, e) : m \in {"GET", "POST"},
                         sg \in {"missing", "invalid"}, e \in events}
      \cup {Request("GET", "valid", e) : e \in events}

\* The POSTs without a valid signature, over every event of the model.
UnverifiedPosts ==
    {req \in RejectedRequests(HandledEvents \cup OtherEvents) :
       req.method = "POST"}

\* A request the endpoint answers before the switch.
WebhookRejected ==
    LET
        \* The events of the requests that arrive without a valid signature: a
        \* subscription update that names the user, or an event of another kind.
        ForgedEvents == RacingEvents \cup OtherEvents
    IN
        /\ out = Idle
        /\ ClientsIdle
        /\ \E req \in RejectedRequests(ForgedEvents) :
             LET a == stripeWebhook(subscriptions, req)
             IN  /\ subscriptions' = a.table
                 /\ out' = Respond("webhook.rejected", a.http, a.did)
        /\ UNCHANGED <<checkout, me, cron, sweep>>

WebhookUnhandled ==
    /\ out = Idle
    /\ ClientsIdle
    /\ \E req \in WebhookRequests(OtherEvents) :
         /\ req.method = "POST"
         /\ req.signature = "valid"
         /\ req.event.kind \notin HandledKinds
         /\ Dispatch("webhook.unhandled", Skipped(subscriptions, FALSE))

WebhookCheckoutCompleted ==
    /\ out = Idle
    /\ \E req \in WebhookRequests(Delivered(CheckoutEvents)) :
         /\ Verified(req, "checkout.session.completed")
         /\ LET e == req.event
            IN  Dispatch(e.kind,
                         handleCheckoutCompleted(subscriptions, e.data,
                                                 e.got.sub, e.got.fails,
                                                 e.lookupFails, e.dbFails))

WebhookSubscriptionUpdated ==
    /\ out = Idle
    /\ \E req \in WebhookRequests(Delivered(SubscriptionUpdatedEvents)) :
         /\ Verified(req, "customer.subscription.updated")
         /\ LET e == req.event
            IN  Dispatch(e.kind,
                         handleSubscriptionUpdated(subscriptions, e.data,
                                                   e.customerMeta,
                                                   e.lookupFails, e.dbFails))

WebhookSubscriptionDeleted ==
    /\ out = Idle
    /\ \E req \in WebhookRequests(Delivered(SubscriptionDeletedEvents)) :
         /\ Verified(req, "customer.subscription.deleted")
         /\ LET e == req.event
            IN  Dispatch(e.kind,
                         handleSubscriptionDeleted(subscriptions, e.data,
                                                   e.customerMeta,
                                                   e.lookupFails, e.dbFails))

WebhookInvoicePaymentSucceeded ==
    /\ out = Idle
    /\ \E req \in WebhookRequests(Delivered(InvoicePaymentSucceededEvents)) :
         /\ Verified(req, "invoice.payment_succeeded")
         /\ LET e == req.event
            IN  Dispatch(e.kind,
                         handleInvoicePaymentSucceeded(subscriptions, e.data,
                                                       e.got.sub, e.got.fails,
                                                       e.customerMeta,
                                                       e.lookupFails,
                                                       e.dbFails))

WebhookInvoicePaymentFailed ==
    /\ out = Idle
    /\ \E req \in WebhookRequests(Delivered(InvoicePaymentFailedEvents)) :
         /\ Verified(req, "invoice.payment_failed")
         /\ LET e == req.event
            IN  Dispatch(e.kind,
                         handleInvoicePaymentFailed(subscriptions, e.data,
                                                    e.got.sub, e.got.fails,
                                                    e.customerMeta,
                                                    e.lookupFails, e.dbFails))

\* ------------------------------------------------------------------------
\* billing-create-checkout-session.ts: handler
\* ------------------------------------------------------------------------

\* What a checkout request did: the error it reports, whether it created a
\* Stripe customer, the write it made on subscriptions ("none", "insert",
\* "update") and whether that write failed, whether it created a Checkout
\* session, and the customer the session is for.
CheckoutDid(error, created, write, writeFailed, session, customer) ==
    [error |-> error, created |-> created, write |-> write,
     writeFailed |-> writeFailed, session |-> session, customer |-> customer]

\* The test that takes every id for a missing one.
MissingAlways(stripeCustomerId) == stripeCustomerId = stripeCustomerId

\* !stripeCustomerId: the record is missing, or its customer id is null.
Missing(stripeCustomerId) ==
    stripeCustomerId = Undef \/ stripeCustomerId = Null

CheckoutArrives ==
    /\ ClientsIdle
    /\ out = Idle
    /\ \E method \in {"OPTIONS", "GET", "POST"}, user \in Users \cup {Null} :
          checkout' = [method |-> method, user |-> user, pc |-> "start",
                       hadRow |-> FALSE, customer |-> Null]
    /\ UNCHANGED <<subscriptions, me, cron, out, sweep>>

CheckoutAnswers(http, did) ==
    /\ out' = Respond("checkout", http, did)
    /\ checkout' = NoRequest

\* CheckoutSession that answers 200 when stripe.checkout.sessions.create
\* throws.
CheckoutSessionUnreported(created, write, customer) ==
    \E sessionFails \in BOOLEAN :
       IF sessionFails
       THEN CheckoutAnswers(200, CheckoutDid("stripe_error", created, write,
                                             FALSE, FALSE, customer))
       ELSE CheckoutAnswers(200, CheckoutDid(Null, created, write, FALSE,
                                             TRUE, customer))

\* stripe.checkout.sessions.create for the customer, then the response.
CheckoutSession(created, write, customer) ==
    \E sessionFails \in BOOLEAN :
       IF sessionFails
       THEN CheckoutAnswers(500, CheckoutDid("stripe_error", created, write,
                                             FALSE, FALSE, customer))
       ELSE CheckoutAnswers(200, CheckoutDid(Null, created, write, FALSE,
                                             TRUE, customer))

\* stripe.customers.create answers with a customer of its own: not the one
\* it created for the other checkout request in flight.
NewCustomerIds ==
    IF "customer" \in DOMAIN sweep.waiting /\ sweep.waiting.customer # Null
    THEN {"cus_2"} ELSE CustomerIds

\* From the method check to the first await that follows the select: the
\* request is answered, or a Stripe customer is created for the user.
CheckoutReads ==
    /\ checkout # NoRequest
    /\ checkout.pc = "start"
    /\ out = Idle
    /\ IF checkout.method = "OPTIONS"
       THEN CheckoutAnswers(200, CheckoutDid(Null, FALSE, "none", FALSE,
                                             FALSE, Null))
       ELSE IF checkout.method # "POST"
       THEN CheckoutAnswers(405, CheckoutDid(Null, FALSE, "none", FALSE,
                                             FALSE, Null))
       ELSE IF checkout.user = Null
       THEN CheckoutAnswers(401, CheckoutDid("not_authenticated", FALSE,
                                             "none", FALSE, FALSE, Null))
       ELSE \E selectFails \in BOOLEAN :
              LET sub == DbSelect(subscriptions, checkout.user, selectFails)
                  stripeCustomerId ==
                      IF sub.data = NoRow THEN Undef
                      ELSE sub.data.stripe_customer_id
              IN  IF sub.error
                  THEN CheckoutAnswers(500,
                         CheckoutDid("subscriptions_select_failed", FALSE,
                                     "none", FALSE, FALSE, Null))
                  ELSE IF ~Missing(stripeCustomerId)
                  THEN CheckoutSession(FALSE, "none", stripeCustomerId)
                  ELSE \E createFails \in BOOLEAN, id \in NewCustomerIds :
                         IF createFails
                         THEN CheckoutAnswers(500,
                                CheckoutDid("stripe_error", FALSE, "none",
                                            FALSE, FALSE, Null))
                         ELSE /\ checkout' =
                                   [checkout EXCEPT
                                      !.pc = "persist",
                                      !.hadRow = sub.data # NoRow,
                                      !.customer = id]
                              /\ out' = out
    /\ UNCHANGED <<subscriptions, me, cron, sweep>>

\* The new customer id is saved: insert when the select found no row, else
\* update; then the Checkout session is created.
CheckoutPersists ==
    /\ checkout # NoRequest
    /\ checkout.pc = "persist"
    /\ out = Idle
    /\ \E dbFails \in BOOLEAN :
         IF ~checkout.hadRow
         THEN LET r == DbInsert(subscriptions,
                                [user_id |-> checkout.user,
                                 stripe_customer_id |-> checkout.customer,
                                 status |-> "none"])
              IN  IF dbFails \/ r.error
                  THEN /\ CheckoutAnswers(500,
                            CheckoutDid("subscriptions_insert_failed", TRUE,
                                        "insert", TRUE, FALSE,
                                        checkout.customer))
                       /\ UNCHANGED subscriptions
                  ELSE /\ subscriptions' = r.table
                       /\ CheckoutSession(TRUE, "insert", checkout.customer)
         ELSE IF dbFails
         THEN /\ CheckoutAnswers(500,
                   CheckoutDid("subscriptions_update_failed", TRUE, "update",
                               TRUE, FALSE, checkout.customer))
              /\ UNCHANGED subscriptions
         ELSE /\ subscriptions' =
                   DbUpdate(subscriptions,
                            [stripe_customer_id |-> checkout.customer],
                            RowsOf(subscriptions, checkout.user))
              /\ CheckoutSession(TRUE, "update", checkout.customer)
    /\ UNCHANGED <<me, cron, sweep>>

\* ------------------------------------------------------------------------
\* billing-create-portal-session.ts
\* ------------------------------------------------------------------------

\* What a portal request did: the error it reports, whether it created a
\* Billing Portal session, and the customer the session is for.
PortalDid(error, session, customer) ==
    [error |-> error, session |-> session, customer |-> customer]

PortalAnswer(table, http, did) == [table |-> table, http |-> http, did |-> did]

\* The handler that opens the portal only for an active record.
billingPortalActiveOnly(table, method, user, selectFails, portalFails) ==
    LET sub == DbSelect(table, user, selectFails)
    IN  IF method # "POST" \/ user = Null \/ sub.error \/ sub.data = NoRow
           \/ sub.data.status # "active"
        THEN PortalAnswer(table, 400,
                          PortalDid("no_stripe_customer", FALSE, Null))
        ELSE PortalAnswer(table, 200,
                          PortalDid(Null, TRUE,
                                    sub.data.stripe_customer_id))

\* The handler: the checks, the select, and
\* stripe.billingPortal.sessions.create for the stored customer.
billingPortal(table, method, user, selectFails, portalFails) ==
    IF method = "OPTIONS"
    THEN PortalAnswer(table, 200, PortalDid(Null, FALSE, Null))
    ELSE IF method # "POST"
    THEN PortalAnswer(table, 405, PortalDid(Null, FALSE, Null))
    ELSE IF user = Null
    THEN PortalAnswer(table, 401,
                      PortalDid("not_authenticated", FALSE, Null))
    ELSE LET sub == DbSelect(table, user, selectFails)
             stripeCustomerId ==
                 IF sub.data = NoRow THEN Undef
                 ELSE sub.data.stripe_customer_id
         IN  IF sub.error
             THEN PortalAnswer(table, 500,
                               PortalDid("subscriptions_select_failed",
                                         FALSE, Null))
             ELSE IF Missing(stripeCustomerId)
             THEN PortalAnswer(table, 400,
                               PortalDid("no_stripe_customer", FALSE, Null))
             ELSE IF portalFails
             THEN PortalAnswer(table, 500,
                               PortalDid("stripe_error", FALSE,
                                         stripeCustomerId))
             ELSE PortalAnswer(table, 200,
                               PortalDid(Null, TRUE, stripeCustomerId))

\* A portal request, from its arrival to its response.
PortalRequest ==
    /\ ClientsIdle
    /\ out = Idle
    /\ \E method \in {"OPTIONS", "GET", "POST"}, user \in Users \cup {Null},
          selectFails \in BOOLEAN, portalFails \in BOOLEAN :
         LET a == billingPortal(subscriptions, method, user, selectFails,
                                portalFails)
         IN  /\ subscriptions' = a.table
             /\ out' = Respond("portal", a.http, a.did)
    /\ UNCHANGED <<checkout, me, cron, sweep>>

\* ------------------------------------------------------------------------
\* academia.ts and me.ts: handler
\* ------------------------------------------------------------------------

\* An e-mail address is the sequence of its local part and its "@domain".
ACADEMIA_DOMAINS == {<<"@fclt.tamabi.ac.jp">>, <<"@tamabi.ac.jp">>,
                     <<"@tcu.ac.jp">>}

Emails == {<<>>, <<"alice", "@tcu.ac.jp">>, <<"bob", "@example.com">>}

EndsWith(text, suffix) ==
    /\ Len(text) >= Len(suffix)
    /\ SubSeq(text, Len(text) - Len(suffix) + 1, Len(text)) = suffix

isAcademiaEmail(email) ==
    IF email = <<>> THEN FALSE
    ELSE \E domain \in ACADEMIA_DOMAINS : EndsWith(email, domain)

\* The instants a request can read from the clock, in milliseconds.
NowValues == {500, 1500}

\* finalSubscription: the record the response carries. subscription is the
\* record first read, updatedSubscription the one re-read after an expiry.
finalSubscription(subscription, updatedSubscription, user, email, now) ==
    IF (subscription = NoRow \/ subscription.status # "active")
       /\ email # <<>> /\ isAcademiaEmail(email)
    THEN IF subscription = NoRow
         THEN [user_id |-> user, status |-> "active", plan_id |-> "academia",
               current_period_end |-> NullT, created_at |-> now,
               updated_at |-> now]
         ELSE [subscription EXCEPT !.status = "active",
                                   !.plan_id = "academia",
                                   !.current_period_end = NullT]
    ELSE updatedSubscription

MeDid(subscription, expired) ==
    [subscription |-> subscription, expired |-> expired]

\* ------------------------------------------------------------------------
\* subscription.ts, auth-guards.ts and projects.ts
\* ------------------------------------------------------------------------

\* checkSubscription: .select("status").eq("user_id", user.id)
\* .in("status", ["active", "trialing"]).maybeSingle() gives a record (null
\* on an error, which several matching rows are); without one, the user's
\* address decides.
checkSubscription(table, user, email, selectFails) ==
    LET rows == {i \in RowsOf(table, user) :
                   table[i].status \in {"active", "trialing"}}
        found == ~selectFails /\ Cardinality(rows) = 1
    IN  IF found THEN TRUE
        ELSE IF email # <<>> /\ isAcademiaEmail(email) THEN TRUE
        ELSE FALSE

\* What a projects request did: the error of its guards, whether
\* checkSubscription ran its select, and whether the handler went on to the
\* user's projects.
ProjectsDid(user, error, selected, granted) ==
    [user |-> user, error |-> error, selected |-> selected,
     granted |-> granted]

\* The handler that asks for the subscription before the user.
projectsEntitlementFirst(table, method, user, email, selectFails, rest) ==
    IF ~checkSubscription(table, user, email, selectFails)
    THEN [http |-> 403,
          did |-> ProjectsDid(user, "subscription_required", TRUE, FALSE)]
    ELSE IF user = Null
    THEN [http |-> 401,
          did |-> ProjectsDid(user, "not_authenticated", TRUE, FALSE)]
    ELSE [http |-> rest, did |-> ProjectsDid(user, Null, TRUE, TRUE)]

\* The handler of /api/projects: handleCorsAndMethods, requireAuth,
\* requireSubscription, then the user's projects (rest: the status that part
\* answers with).
projects(table, method, user, email, selectFails, rest) ==
    IF method = "OPTIONS"
    THEN [http |-> 200, did |-> ProjectsDid(user, Null, FALSE, FALSE)]
    ELSE IF method \notin {"GET", "POST"}
    THEN [http |-> 405, did |-> ProjectsDid(user, Null, FALSE, FALSE)]
    ELSE IF user = Null
    THEN [http |-> 401,
          did |-> ProjectsDid(user, "not_authenticated", FALSE, FALSE)]
    ELSE IF ~checkSubscription(table, user, email, selectFails)
    THEN [http |-> 403,
          did |-> ProjectsDid(user, "subscription_required", TRUE, FALSE)]
    ELSE [http |-> rest, did |-> ProjectsDid(user, Null, TRUE, TRUE)]

\* A projects request, from its arrival to its response.
ProjectsRequest ==
    /\ ClientsIdle
    /\ out = Idle
    /\ \E method \in {"OPTIONS", "GET", "PUT"}, user \in Users \cup {Null},
          selectFails \in BOOLEAN, rest \in {200, 400, 500} :
         \E email \in (IF user = Null THEN {<<>>} ELSE Emails) :
            LET a == projects(subscriptions, method, user, email, selectFails,
                              rest)
            IN  out' = Respond("projects", a.http, a.did)
    /\ UNCHANGED <<subscriptions, checkout, me, cron, sweep>>

MeArrives ==
    /\ ClientsIdle
    /\ out = Idle
    /\ \E method \in {"GET", "POST"}, user \in Users \cup {Null},
          now \in NowValues :
         \E email \in (IF user = Null THEN {<<>>} ELSE Emails) :
            me' = [method |-> method, user |-> user, email |-> email,
                   now |-> now, pc |-> "start", subscription |-> NoRow]
    /\ UNCHANGED <<subscriptions, checkout, cron, out, sweep>>

MeAnswers(http, did) ==
    /\ out' = Respond("me", http, did)
    /\ me' = NoRequest

\* The method and token checks, the select, and shouldExpireSubscription on
\* the record read.
MeReadsWhen(selectFails) ==
    /\ me # NoRequest
    /\ me.pc = "start"
    /\ out = Idle
    /\ IF me.method # "GET"
       THEN MeAnswers(405, MeDid(NoRow, FALSE))
       ELSE IF me.user = Null
       THEN MeAnswers(401, MeDid(NoRow, FALSE))
       ELSE LET subscription ==
                      DbSelect(subscriptions, me.user, selectFails).data
              IN  IF subscription # NoRow
                     /\ shouldExpireSubscription(subscription, me.now)
                  THEN /\ me' = [me EXCEPT !.pc = "expire",
                                           !.subscription = subscription]
                       /\ out' = out
                  ELSE MeAnswers(200,
                         MeDid(finalSubscription(subscription, subscription,
                                                 me.user, me.email, me.now),
                               FALSE))
    /\ UNCHANGED <<subscriptions, checkout, cron, sweep>>

MeReads == \E selectFails \in BOOLEAN : MeReadsWhen(selectFails)

\* expireSubscriptionIfNeeded writes the expiry; its error is thrown and
\* answered 500.
MeExpiresWhen(dbFails) ==
    /\ me # NoRequest
    /\ me.pc = "expire"
    /\ out = Idle
    /\ IF dbFails
         THEN /\ MeAnswers(500, MeDid(NoRow, FALSE))
              /\ UNCHANGED subscriptions
         ELSE /\ subscriptions' =
                   ExpireUpdate(subscriptions, me.subscription, me.now)
              /\ me' = [me EXCEPT !.pc = "refresh"]
              /\ out' = out
    /\ UNCHANGED <<checkout, cron, sweep>>

MeExpires == \E dbFails \in BOOLEAN : MeExpiresWhen(dbFails)

\* The record is read again and the response is built.
MeRefreshes ==
    /\ me # NoRequest
    /\ me.pc = "refresh"
    /\ out = Idle
    /\ \E selectFails \in BOOLEAN :
         LET refreshed == DbSelect(subscriptions, me.user, selectFails).data
         IN  MeAnswers(200,
               MeDid(finalSubscription(me.subscription, refreshed, me.user,
                                       me.email, me.now),
                     TRUE))
    /\ UNCHANGED <<subscriptions, checkout, cron, sweep>>

\* ------------------------------------------------------------------------
\* cron-expire-subscriptions.ts
\* ------------------------------------------------------------------------

\* bearer: the token of an "Authorization: Bearer" header, Null without one.
isAuthorizedCron(cronSecret, bearer, vercelCron) ==
    IF cronSecret = Null THEN TRUE
    ELSE IF bearer # Null THEN bearer = cronSecret
    ELSE vercelCron

CronDid(byPeriodEnd, trials, stale) ==
    [expired_by_period_end |-> byPeriodEnd, expired_trials |-> trials,
     stale_active_count |-> stale]

\* The filters of the three statements of the sweep.
\* The filter of the first statement without the test of the status.
PeriodEndFilterAnyStatus(row, now) ==
    /\ row.cancel_at_period_end = "true"
    /\ DbLt(row.current_period_end, now)

PeriodEndFilter(row, now) ==
    /\ row.cancel_at_period_end = "true"
    /\ DbLt(row.current_period_end, now)
    /\ row.status # "canceled"

\* The filter of the second statement with the flag of the first.
TrialFilterFlagged(row, now) ==
    /\ row.status = "trialing"
    /\ row.cancel_at_period_end = "true"
    /\ DbLt(row.current_period_end, now)

TrialFilter(row, now) ==
    /\ row.status = "trialing"
    /\ DbLt(row.current_period_end, now)

StaleActiveFilter(row, now) ==
    /\ row.cancel_at_period_end = "false"
    /\ DbLt(row.current_period_end, now)
    /\ row.status # "canceled"

\* The rows each statement matches.
PeriodEndRows(table, now) ==
    {i \in 1 .. Len(table) : PeriodEndFilter(table[i], now)}

TrialRows(table, now) == {i \in 1 .. Len(table) : TrialFilter(table[i], now)}

StaleActiveRows(table, now) ==
    {i \in 1 .. Len(table) : StaleActiveFilter(table[i], now)}

CronArrives ==
    LET
        BearerTokens == {Null, "s3cret", "guess"}
        CronSecrets == {Null, "s3cret"}
    IN
        /\ ClientsIdle
        /\ out = Idle
        /\ \E method \in {"GET", "POST"}, cronSecret \in CronSecrets,
              bearer \in BearerTokens, vercelCron \in BOOLEAN,
              now \in NowValues :
             cron' = [method |-> method,
                      authorized |->
                          isAuthorizedCron(cronSecret, bearer, vercelCron),
                      now |-> now, pc |-> "start", byPeriodEnd |-> 0,
                      trials |-> 0]
        /\ UNCHANGED <<subscriptions, checkout, me, out, sweep>>

CronAnswers(http, did) ==
    /\ out' = Respond("cron", http, did)
    /\ cron' = NoRequest

\* The method and authorization checks and the first update: records with
\* cancel_at_period_end whose period has ended.
CronPeriodEndWhen(dbFails) ==
    /\ cron # NoRequest
    /\ cron.pc = "start"
    /\ out = Idle
    /\ IF cron.method # "GET"
       THEN /\ CronAnswers(405, CronDid(0, 0, 0))
            /\ UNCHANGED subscriptions
       ELSE IF ~cron.authorized
       THEN /\ CronAnswers(401, CronDid(0, 0, 0))
            /\ UNCHANGED subscriptions
       ELSE IF dbFails
              THEN /\ cron' = [cron EXCEPT !.pc = "trials"]
                   /\ UNCHANGED <<subscriptions, out>>
              ELSE /\ subscriptions' =
                        DbUpdate(subscriptions,
                                 [status |-> "canceled",
                                  updated_at |-> cron.now],
                                 PeriodEndRows(subscriptions, cron.now))
                   /\ cron' =
                        [cron EXCEPT
                           !.pc = "trials",
                           !.byPeriodEnd =
                               Cardinality(PeriodEndRows(subscriptions,
                                                         cron.now))]
                   /\ out' = out
    /\ UNCHANGED <<checkout, me, sweep>>

CronPeriodEnd == \E dbFails \in BOOLEAN : CronPeriodEndWhen(dbFails)

\* The second update: trials whose period has ended.
CronTrialsWhen(dbFails) ==
    /\ cron # NoRequest
    /\ cron.pc = "trials"
    /\ out = Idle
    /\ IF dbFails
         THEN /\ cron' = [cron EXCEPT !.pc = "count"]
              /\ UNCHANGED subscriptions
         ELSE /\ subscriptions' =
                   DbUpdate(subscriptions,
                            [status |-> "canceled", updated_at |-> cron.now],
                            TrialRows(subscriptions, cron.now))
              /\ cron' =
                   [cron EXCEPT
                      !.pc = "count",
                      !.trials =
                          Cardinality(TrialRows(subscriptions, cron.now))]
    /\ UNCHANGED <<checkout, me, out, sweep>>

CronTrials == \E dbFails \in BOOLEAN : CronTrialsWhen(dbFails)

\* The count of records past their period end that are not flagged, and the
\* response.
CronCounts ==
    /\ cron # NoRequest
    /\ cron.pc = "count"
    /\ out = Idle
    /\ \E dbFails \in BOOLEAN :
         CronAnswers(200,
           CronDid(cron.byPeriodEnd, cron.trials,
                   IF dbFails THEN 0
                   ELSE Cardinality(StaleActiveRows(subscriptions,
                                                    cron.now))))
    /\ UNCHANGED <<subscriptions, checkout, me, sweep>>

\* ------------------------------------------------------------------------
\* Calls of the helpers
\* ------------------------------------------------------------------------

\* The params of a direct call of upsertSubscription: each field left out,
\* or given.
UpsertParams ==
    [userId : Users,
     customerId : {Undef, Null} \cup CustomerIds,
     subscriptionId : {Undef, Null} \cup SubscriptionIds,
     status : {Undef, "active", "canceled"},
     currentPeriodEnd : {UndefT} \cup {toIso(e) : e \in Epochs},
     cancelAtPeriodEnd : {Undef, "true", "false"},
     planId : {Undef, Null} \cup {Plans[p] : p \in DOMAIN Plans}]

\* upsertSubscription(params).
UpsertSubscriptionCall ==
    LET
        \* What a call of upsertSubscription did: the table before it, the params,
        \* and the outcome of the upsert.
        UpsertDid(before, params, r) ==
            [before |-> before, params |-> params,
             upsert |-> IF r.threw THEN "failed" ELSE "ok"]
    IN
        /\ out = Idle
        /\ ClientsIdle
        /\ \E params \in UpsertParams, dbFails \in BOOLEAN :
             LET r == upsertSubscription(subscriptions, params, dbFails)
             IN  /\ subscriptions' = r.table
                 /\ out' = Respond("upsertSubscription", 0,
                                   UpsertDid(subscriptions, params, r))
        /\ UNCHANGED <<checkout, me, cron, sweep>>

\* upsertSubscription(params) followed by upsertSubscription(params): once
\* is the table between the two calls.
UpsertSubscriptionRepeated ==
    /\ out = Idle
    /\ ClientsIdle
    /\ \E params \in UpsertParams :
         LET first == upsertSubscription(subscriptions, params, FALSE)
             second == upsertSubscription(first.table, params, FALSE)
         IN  /\ subscriptions' = second.table
             /\ out' = Respond("upsertSubscription.repeated", 0,
                               [before |-> subscriptions, params |-> params,
                                once |-> first.table])
    /\ UNCHANGED <<checkout, me, cron, sweep>>

\* mapStripeStatus(status), for every Stripe status, null and undefined.
MapStripeStatusCall ==
    /\ out = Idle
    /\ ClientsIdle
    /\ \E status \in StripeStatuses \cup {Undef} :
         out' = Respond("mapStripeStatus", 0,
                        [status |-> status, mapped |-> mapStripeStatus(status)])
    /\ UNCHANGED <<subscriptions, checkout, me, cron, sweep>>

\* The user ids a subscription or a customer can be tagged with: the
\* customer record may carry another user than the subscription.
TaggedUsers == Users \cup {"u2"}

\* getUserIdFromCustomer(stripe, customerId, subscription), for a
\* subscription with and without metadata.user_id, with and without a
\* customer reference, and for every answer of stripe.customers.retrieve.
GetUserIdFromCustomerCall ==
    /\ out = Idle
    /\ ClientsIdle
    /\ \E customerId \in CustomerIds \cup {Null},
          metadataUserId \in TaggedUsers \cup {Null},
          customerMeta \in TaggedUsers \cup {Throws, Null} :
         LET subscription ==
               [NoSubscription EXCEPT !.customer = customerId,
                                      !.metadata_user_id = metadataUserId]
         IN  out' = Respond("getUserIdFromCustomer", 0,
                            [customerId |-> customerId,
                             subscription |-> subscription,
                             customerMeta |-> customerMeta,
                             result |-> getUserIdFromCustomer(
                                          customerId, subscription,
                                          customerMeta)])
    /\ UNCHANGED <<subscriptions, checkout, me, cron, sweep>>

\* shouldExpireSubscription(subscription, now), for every status, every
\* cancel_at_period_end (true, false, null) and every period end.
ShouldExpireSubscriptionCall ==
    LET
        \* The period ends of the records shouldExpireSubscription is called with:
        \* none, an unparsable one, and ones before, at and after every instant.
        ExpiryPeriodEnds ==
            {NullT, InvalidT} \cup UNION {{now - 250, now, now + 250} : now \in NowValues}
    IN
        /\ out = Idle
        /\ ClientsIdle
        /\ \E status \in SubscriptionStatus, flag \in {"true", "false", Null},
              periodEnd \in ExpiryPeriodEnds, now \in NowValues :
             LET subscription ==
                   [ColumnDefaults EXCEPT !.user_id = "u1", !.status = status,
                                          !.cancel_at_period_end = flag,
                                          !.current_period_end = periodEnd]
             IN  out' = Respond("shouldExpireSubscription", 0,
                                [subscription |-> subscription, now |-> now,
                                 result |-> shouldExpireSubscription(subscription,
                                                                     now)])
        /\ UNCHANGED <<subscriptions, checkout, me, cron, sweep>>

\* ------------------------------------------------------------------------
\* The system
\* ------------------------------------------------------------------------

Next ==
    \/ ResponseSent
    \/ WebhookRejected
    \/ WebhookUnhandled
    \/ WebhookCheckoutCompleted
    \/ WebhookSubscriptionUpdated
    \/ WebhookSubscriptionDeleted
    \/ WebhookInvoicePaymentSucceeded
    \/ WebhookInvoicePaymentFailed
    \/ CheckoutArrives
    \/ CheckoutReads
    \/ CheckoutPersists
    \/ PortalRequest
    \/ ProjectsRequest
    \/ MeArrives
    \/ MeReads
    \/ MeExpires
    \/ MeRefreshes
    \/ CronArrives
    \/ CronPeriodEnd
    \/ CronTrials
    \/ CronCounts

\* The endpoints over the subscriptions table.
Spec == Init /\ [][Next]_vars

NextHelpers ==
    \/ ResponseSent
    \/ UpsertSubscriptionCall
    \/ UpsertSubscriptionRepeated
    \/ MapStripeStatusCall
    \/ GetUserIdFromCustomerCall
    \/ ShouldExpireSubscriptionCall

\* The helpers called directly, in any order, on the table they leave.
SpecHelpers == Init /\ [][NextHelpers]_vars

\* ------------------------------------------------------------------------
\* Sweeps that run together
\* ------------------------------------------------------------------------

SweepRow(user, status, flag, periodEnd) ==
    [ColumnDefaults EXCEPT !.user_id = user, !.status = status,
                           !.cancel_at_period_end = flag,
                           !.current_period_end = periodEnd]

\* The rows of a user: none, or one.
SweepRows(user, statuses) ==
    LET
        \* The period ends of the rows: none, one before every instant a request
        \* reads from the clock, and the ones the webhooks store.
        SweepPeriodEnds == {NullT, 250} \cup {toIso(e) : e \in Epochs}
    IN
        {<<>>} \cup {<<SweepRow(user, status, flag, periodEnd)>> :
                       status \in statuses, flag \in {"true", "false"},
                       periodEnd \in SweepPeriodEnds}

\* The tables the sweeps start on: at most one row for each user.
SweepTables ==
    {mine \o other : mine \in SweepRows("u1", {"trialing", "active",
                                                "canceled"}),
                     other \in SweepRows("u2", {"trialing", "active"})}

InitSweeps ==
    /\ subscriptions \in SweepTables
    /\ checkout = NoRequest
    /\ me = NoRequest
    /\ cron = NoRequest
    /\ out = Idle
    /\ sweep = NoSweep

\* An authorized run of the scheduled sweep at an instant, none for NullT.
BatchSweep(now) ==
    IF now = NullT THEN NoRequest
    ELSE [method |-> "GET", authorized |-> TRUE, now |-> now,
          pc |-> "start", byPeriodEnd |-> 0, trials |-> 0]

\* A /me read of a user at an instant, none for NullT.
LazySweep(user, now) ==
    IF now = NullT THEN NoRequest
    ELSE [method |-> "GET", user |-> user, email |-> <<>>, now |-> now,
          pc |-> "start", subscription |-> NoRow]

\* A batch sweep starts together with a /me read, a second batch sweep, or
\* both.
SweepsArrive ==
    /\ ClientsIdle
    /\ out = Idle
    /\ sweep = NoSweep
    /\ \E first \in NowValues, second \in NowValues \cup {NullT},
          lazy \in NowValues \cup {NullT} :
         /\ second # NullT \/ lazy # NullT
         /\ cron' = BatchSweep(first)
         /\ me' = LazySweep("u1", lazy)
         /\ sweep' = [start |-> subscriptions, lazy |-> lazy,
                      batch |-> {first, second} \ {NullT},
                      waiting |-> BatchSweep(second)]
    /\ UNCHANGED <<subscriptions, checkout, out>>

\* The batch sweep that waits takes the place of the one that runs.
CronYields ==
    /\ out = Idle
    /\ sweep.waiting # NoRequest
    /\ cron' = sweep.waiting
    /\ sweep' = [sweep EXCEPT !.waiting = cron]
    /\ UNCHANGED <<subscriptions, checkout, me, out>>

NextSweeps ==
    \/ ResponseSent
    \/ SweepsArrive
    \/ CronYields
    \/ MeReadsWhen(FALSE)
    \/ MeExpiresWhen(FALSE)
    \/ MeRefreshes
    \/ CronPeriodEndWhen(FALSE)
    \/ CronTrialsWhen(FALSE)
    \/ CronCounts

\* Sweeps that run together on a table, every statement succeeding, no event
\* in between.
SpecSweeps == InitSweeps /\ [][NextSweeps]_vars

\* ------------------------------------------------------------------------
\* Deliveries of two events
\* ------------------------------------------------------------------------

\* What two deliveries did: the table before them, the table between them,
\* and what each handler did.
DeliveriesDid(before, first, second) ==
    [before |-> before, once |-> first.table, first |-> Did(first),
     second |-> Did(second),
     answers |-> <<IF first.threw THEN 500 ELSE 200,
                   IF second.threw THEN 500 ELSE 200>>]

\* Stripe delivers a checkout.session.completed event a second time, with
\* the same answers to the calls of the handler: the two upserts run one
\* after the other, whichever request issues its upsert first.
WebhookCheckoutCompletedTwice ==
    /\ out = Idle
    /\ ClientsIdle
    /\ \E req \in WebhookRequests(CheckoutEvents) :
         /\ Verified(req, "checkout.session.completed")
         /\ LET first == handleEvent(subscriptions, req.event)
                second == handleEvent(first.table, req.event)
            IN  /\ subscriptions' = second.table
                /\ out' = Respond("checkout.session.completed.twice",
                                  IF second.threw THEN 500 ELSE 200,
                                  DeliveriesDid(subscriptions, first, second))
    /\ UNCHANGED <<checkout, me, cron, sweep>>

\* Subscription events of a kind that name the user in the metadata of the
\* subscription, for the stored subscription and for another one.
OrderedEvents(kind) ==
    {Event(kind, subscription, NotAsked, NotCalled, FALSE, FALSE) :
       subscription \in
         {o \in UNION {SubscriptionObjects(id, CustomerIds, Users, {Null}) :
                         id \in SubscriptionIds \cup {"sub_2"}} :
            o.status \in {"active", "canceled", Null}}}

\* A customer.subscription.deleted and a customer.subscription.updated
\* event of a user are delivered one after the other, in either order.
WebhookSubscriptionEventsInOrder ==
    /\ out = Idle
    /\ ClientsIdle
    /\ \E deleted \in OrderedEvents("customer.subscription.deleted"),
          updated \in OrderedEvents("customer.subscription.updated"),
          deletedFirst \in BOOLEAN :
         LET e1 == IF deletedFirst THEN deleted ELSE updated
             e2 == IF deletedFirst THEN updated ELSE deleted
             first == handleEvent(subscriptions, e1)
             second == handleEvent(first.table, e2)
         IN  /\ subscriptions' = second.table
             /\ out' = Respond("customer.subscription.events",
                               IF second.threw THEN 500 ELSE 200,
                               DeliveriesDid(subscriptions, first, second)
                                 @@ [last |-> e2])
    /\ UNCHANGED <<checkout, me, cron, sweep>>

NextDeliveries ==
    \/ ResponseSent
    \/ WebhookCheckoutCompleted
    \/ WebhookSubscriptionUpdated
    \/ WebhookSubscriptionDeleted
    \/ WebhookInvoicePaymentSucceeded
    \/ WebhookInvoicePaymentFailed
    \/ WebhookCheckoutCompletedTwice
    \/ WebhookSubscriptionEventsInOrder

\* The webhook endpoint alone, with events delivered twice, on every table
\* the events before them leave.
SpecDeliveries == Init /\ [][NextDeliveries]_vars

\* ------------------------------------------------------------------------
\* Properties
\* ------------------------------------------------------------------------

\* The column a param of upsertSubscription is stored in.
ParamColumn ==
    [customerId |-> "stripe_customer_id",
     subscriptionId |-> "stripe_subscription_id",
     status |-> "status",
     currentPeriodEnd |-> "current_period_end",
     cancelAtPeriodEnd |-> "cancel_at_period_end",
     planId |-> "plan_id"]

\* The positions of the rows of a table.
Rows(table) == 1 .. Len(table)

\* A webhook response of a handler whose upsert succeeded.
UpsertedOk(response) ==
    /\ response.op \in HandledKinds
    /\ response.did.upsert = "ok"

\* C1. Field-omission law: a call of upsertSubscription whose params leave
\* a field out (undefined) leaves the stored value of that field's column as
\* it was in every record stored before the call, whatever calls came
\* before it.
C1_FieldOmissionLaw ==
    LET
        Omitted(params, field) ==
            IF field = "currentPeriodEnd" THEN params[field] = UndefT
            ELSE params[field] = Undef
    IN
        out.op = "upsertSubscription" =>
            \A field \in DOMAIN ParamColumn :
               Omitted(out.did.params, field) =>
                   \A i \in Rows(out.did.before) :
                      /\ i <= Len(subscriptions)
                      /\ subscriptions[i][ParamColumn[field]]
                           = out.did.before[i][ParamColumn[field]]

\* A call that left the customer id out and gave a status changed the
\* stored status of a record and kept its customer id.
C1_Witness ==
    /\ out.op = "upsertSubscription"
    /\ out.did.upsert = "ok"
    /\ out.did.params.customerId = Undef
    /\ out.did.params.currentPeriodEnd = UndefT
    /\ Len(out.did.before) = 1
    /\ out.did.before[1].stripe_customer_id # Null
    /\ out.did.before[1].current_period_end # NullT
    /\ subscriptions[1].status # out.did.before[1].status

\* C2. upsertSubscription is idempotent: the same params applied twice leave
\* the table the first application left (the same records, none added), on
\* every table the calls before them can leave.
C2_UpsertIdempotent ==
    out.op = "upsertSubscription.repeated" =>
        /\ subscriptions = out.did.once
        /\ \A u \in Users : Cardinality(RowsOf(subscriptions, u)) <= 1

\* The params were applied twice to a stored record which the first
\* application changed.
C2_Witness ==
    /\ out.op = "upsertSubscription.repeated"
    /\ Len(out.did.before) = 1
    /\ out.did.once # out.did.before
    /\ Len(subscriptions) = 1

\* C3. The table holds at most one record per user id, and no write that
\* creates a record is a plain insert: the claim as the specification
\* states it. The checkout session builder creates the record with insert.
C3_OneRecordByUpsert ==
    /\ \A u \in Users : Cardinality(RowsOf(subscriptions, u)) <= 1
    /\ out.op = "checkout" => out.did.write # "insert"

\* C4. A stored stripe_subscription_id that is not null is not null after a
\* webhook event is handled: the claim as the specification states it. A
\* checkout or invoice event without a subscription reference stores null.
C4_SubscriptionIdKept ==
    [][out'.op \in HandledKinds =>
         \A i \in Rows(subscriptions) :
            subscriptions[i].stripe_subscription_id # Null =>
                subscriptions'[i].stripe_subscription_id # Null]_vars

\* C5. A stored current_period_end that is not null is not null after any
\* step of a webhook handler, of the sweeps and of the session builder; and
\* a handler that passes no period end (the subscription has none, or was
\* not fetched) leaves the stored value as it was.
C5_PeriodEndKept ==
    [][\A i \in Rows(subscriptions) :
          /\ i <= Len(subscriptions')
          /\ subscriptions[i].current_period_end # NullT =>
                 subscriptions'[i].current_period_end # NullT
          /\ (/\ UpsertedOk(out')
              /\ out'.did.params.currentPeriodEnd = UndefT) =>
                 subscriptions'[i].current_period_end
                   = subscriptions[i].current_period_end]_vars

\* A handler upserted without a period end and the record has one.
C5_Witness ==
    /\ UpsertedOk(out)
    /\ out.did.params.currentPeriodEnd = UndefT
    /\ Len(subscriptions) = 1
    /\ subscriptions[1].current_period_end # NullT

\* C6. A stored stripe_customer_id that is not null is not null in every
\* later state: the claim as the specification states it. A subscription
\* or invoice event without a customer, whose user comes from the
\* subscription's metadata, stores null.
C6_CustomerIdKept ==
    [][\A i \in Rows(subscriptions) :
          subscriptions[i].stripe_customer_id # Null =>
              subscriptions'[i].stripe_customer_id # Null]_vars

\* C7. A step changes a stored plan_id (null in a record it creates) only
\* to the plan the catalog holds for the price id of the webhook event it
\* handles: without a price id, without a plan for it, or when the lookup
\* fails, the plan_id is as it was.
C7_PlanIdFromCatalog ==
    [][\A i \in Rows(subscriptions') :
          LET old == IF i <= Len(subscriptions) THEN subscriptions[i].plan_id
                     ELSE Null
              new == subscriptions'[i].plan_id
          IN  new # old =>
                  /\ UpsertedOk(out')
                  /\ out'.did.priceId \in DOMAIN Plans
                  /\ new = Plans[out'.did.priceId]]_vars

\* A handler upserted for an event whose price has no plan and the record
\* has a plan.
C7_Witness ==
    /\ UpsertedOk(out)
    /\ out.did.priceId \in PriceIds \ DOMAIN Plans
    /\ Len(subscriptions) = 1
    /\ subscriptions[1].plan_id \in {Plans[p] : p \in DOMAIN Plans}

\* C8. mapStripeStatus maps active, trialing, past_due and incomplete to
\* themselves, unpaid to past_due, incomplete_expired and canceled to
\* canceled, and every other input (another status, null, undefined) to
\* none.
C8_StatusMapping ==
    out.op = "mapStripeStatus" =>
        LET status == out.did.status
            mapped == out.did.mapped
        IN  /\ status = "active" => mapped = "active"
            /\ status = "trialing" => mapped = "trialing"
            /\ status = "past_due" => mapped = "past_due"
            /\ status = "unpaid" => mapped = "past_due"
            /\ status = "incomplete" => mapped = "incomplete"
            /\ status = "incomplete_expired" => mapped = "canceled"
            /\ status = "canceled" => mapped = "canceled"
            /\ status \notin {"active", "trialing", "past_due", "unpaid",
                               "incomplete", "incomplete_expired", "canceled"}
                 => mapped = "none"

\* mapStripeStatus was called with unpaid.
C8_Witness ==
    /\ out.op = "mapStripeStatus"
    /\ out.did.status = "unpaid"
    /\ out.did.mapped = "past_due"

\* C9. The status of every stored record is one of none, active, past_due,
\* canceled, incomplete, trialing.
C9_StatusVocabulary ==
    \A i \in Rows(subscriptions) :
       subscriptions[i].status \in SubscriptionStatus

\* A handler upserted for a subscription whose Stripe status is outside
\* the vocabulary.
C9_Witness ==
    /\ UpsertedOk(out)
    /\ out.did.stripeStatus \in {"unpaid", "incomplete_expired", "paused"}
    /\ Len(subscriptions) = 1
    /\ subscriptions[1].status = out.did.params.status

\* C10. When the upsert of a handled event fails, the endpoint answers 5xx:
\* the claim as the specification states it. handleCheckoutCompleted
\* catches the error of its upsert and the endpoint answers 200.
C10_UpsertFailureReported ==
    (out.op \in HandledKinds /\ out.did.upsert = "failed") => out.http >= 500

UnresolvedEvents ==
    LET
        \* The event names a user: in the session's metadata with a customer, in
        \* the subscription's metadata, or in the metadata of a customer that
        \* Stripe returns.
        Resolvable(e) ==
            IF e.kind = "checkout.session.completed"
            THEN e.data.metadata_user_id \in Users /\ e.data.customer # Null
            ELSE IF e.kind \in {"customer.subscription.updated",
                                "customer.subscription.deleted"}
            THEN \/ e.data.metadata_user_id \in Users
                 \/ e.data.customer # Null /\ e.customerMeta \in Users
            ELSE \/ e.got.sub.metadata_user_id \in Users
                 \/ e.data.customer # Null /\ e.customerMeta \in Users
    IN
        {e \in HandledEvents : ~Resolvable(e)}

\* C11. A verified event that names no user (no user id in the metadata, no
\* customer, a customer without the tag, a customer fetch that fails) or
\* whose kind is not handled is answered 200 and leaves the table as it is:
\* on every table a response leaves, the handler neither throws nor upserts
\* for such an event, and a response for an event without upsert is a 200.
C11_UnresolvedIsNoOp ==
    /\ out = Idle =>
          \A e \in UnresolvedEvents \cup OtherEvents :
             LET r == handleEvent(subscriptions, e)
             IN  /\ ~r.threw
                 /\ r.upsert = "none"
                 /\ r.table = subscriptions
    /\ (/\ out.op \in HandledKinds \cup {"webhook.unhandled"}
        /\ out.did.upsert = "none") => out.http = 200

\* An event whose customer was fetched and gave no user was answered while
\* the table holds a record.
C11_Witness ==
    /\ out.op \in HandledKinds
    /\ out.did.upsert = "none"
    /\ out.did.retrieved
    /\ out.http = 200
    /\ Len(subscriptions) = 1

\* C12. The signature is checked ahead of the switch: a POST whose signature
\* header is missing or does not verify is answered 400 whatever event it
\* carries, no handler runs for it (nothing is fetched from Stripe, nothing
\* is upserted) and the table stays as it is.
C12_SignatureBeforeHandlers ==
    /\ (out = Idle /\ ClientsIdle) =>
          \A req \in UnverifiedPosts :
             LET a == stripeWebhook(subscriptions, req)
             IN  /\ a.http = 400
                 /\ a.table = subscriptions
                 /\ a.did.upsert = "none"
                 /\ ~a.did.retrieved
    /\ out.op = "webhook.rejected" =>
          /\ out.http \in {400, 405}
          /\ out.did.upsert = "none"
          /\ ~out.did.retrieved

\* A request was answered 400 while the table holds a record.
C12_Witness ==
    /\ out.op = "webhook.rejected"
    /\ out.http = 400
    /\ Len(subscriptions) = 1

\* C13. A /me read that finds an expired record answers with the record as
\* the sweep left it: the subscription of the response is the view of the
\* stored, swept record and does not show the record as it was before the
\* sweep. This is the claim as the specification states it.
C13_SweptRecordReturned ==
    LET
        \* The view of a stored record that a response may carry: the record, or
        \* the overlay of the record for some academic address.
        ViewsOf(stored) ==
            {finalSubscription(stored, stored, stored.user_id, email, now) :
               email \in Emails, now \in NowValues}
    IN
        (out.op = "me" /\ out.http = 200 /\ out.did.expired) =>
           /\ \E u \in Users :
                 /\ DbSelect(subscriptions, u, FALSE).data # NoRow
                 /\ out.did.subscription
                      \in ViewsOf(DbSelect(subscriptions, u, FALSE).data)
           /\ out.did.subscription.status # "trialing"

\* A step of a sweep, lazy or batch.
SweepStep ==
    \/ cron # NoRequest /\ cron' # cron
    \/ me # NoRequest /\ me' # me

\* C14. A trial past its period end is expired by the lazy check and matched
\* by the trial update of the batch sweep, both setting canceled; an active
\* record past its period end whose flag is false is expired by neither, is
\* left as it is by every step of a sweep, and is matched by the count; the
\* step that counts writes nothing. This is the claim as the specification
\* states it; the update of the lazy check names the user only, not the
\* record it read.
C14_StaleActiveOnlyCounted ==
    /\ [](\A i \in 1 .. Len(subscriptions), now \in NowValues :
            LET row == subscriptions[i]
                \* A trial past its period end, and an active record past
                \* its period end that is not flagged for cancellation.
                ExpiredTrial ==
                    row.status = "trialing"
                      /\ DbLt(row.current_period_end, now)
                StaleActive ==
                    /\ row.status = "active"
                    /\ row.cancel_at_period_end = "false"
                    /\ DbLt(row.current_period_end, now)
            IN  /\ ExpiredTrial =>
                     /\ shouldExpireSubscription(row, now)
                     /\ ExpireUpdate(subscriptions, row, now)[i].status
                          = "canceled"
                     /\ i \in TrialRows(subscriptions, now)
                /\ StaleActive =>
                     /\ ~shouldExpireSubscription(row, now)
                     /\ i \notin PeriodEndRows(subscriptions, now)
                     /\ i \notin TrialRows(subscriptions, now)
                     /\ i \in StaleActiveRows(subscriptions, now))
    /\ [][SweepStep =>
            \* The instant of the sweep that takes the step.
            LET SweepNow == IF cron # NoRequest /\ cron' # cron
                            THEN cron.now ELSE me.now
            IN  /\ Len(subscriptions') = Len(subscriptions)
                /\ \A i \in 1 .. Len(subscriptions) :
                      /\ (/\ subscriptions[i].status = "active"
                          /\ subscriptions[i].cancel_at_period_end = "false"
                          /\ DbLt(subscriptions[i].current_period_end,
                                  SweepNow)) =>
                           subscriptions'[i] = subscriptions[i]
                      /\ subscriptions'[i] # subscriptions[i] =>
                           subscriptions'[i].status = "canceled"
                /\ (cron # NoRequest /\ cron.pc = "count") =>
                      subscriptions' = subscriptions]_vars

\* The sweeps that started together have all answered.
SweepsDone ==
    /\ sweep # NoSweep
    /\ ClientsIdle
    /\ sweep.waiting = NoRequest

\* The instants of the sweeps that reach a row: every batch sweep, and the
\* /me read of the user of the row.
SweepInstants(row) ==
    sweep.batch \cup (IF sweep.lazy # NullT /\ row.user_id = "u1"
                     THEN {sweep.lazy} ELSE {})

\* One batch sweep on its own: the two updates, one after the other.
SweepOnce(table, now) ==
    LET first == DbUpdate(table, [status |-> "canceled", updated_at |-> now],
                          PeriodEndRows(table, now))
    IN  DbUpdate(first, [status |-> "canceled", updated_at |-> now],
                 TrialRows(first, now))

\* C15. Batch sweeps and a /me read that run together on a table, in any
\* order of their statements and with no event in between: once all have
\* answered, every record that one of them found expired on the table they
\* started on is canceled, each record is as one sweep on its own leaves
\* it (canceled at the instant of a sweep that found it expired, untouched
\* when none did), and one more sweep changes nothing.
C15_SweepsConverge ==
    SweepsDone =>
       /\ Len(subscriptions) = Len(sweep.start)
       /\ \A i \in 1 .. Len(sweep.start) :
             LET before == sweep.start[i]
                 expiring == {now \in SweepInstants(before) :
                                shouldExpireSubscription(before, now)}
             IN  IF expiring = {}
                 THEN subscriptions[i] = before
                 ELSE /\ subscriptions[i].status = "canceled"
                      /\ \E now \in expiring :
                            subscriptions[i]
                              = SweepOnce(<<before>>, now)[1]
       /\ \A now \in sweep.batch :
             SweepOnce(subscriptions, now) = subscriptions
       /\ \A i \in 1 .. Len(subscriptions), now \in NowValues :
             now \in SweepInstants(subscriptions[i]) =>
                ~shouldExpireSubscription(subscriptions[i], now)

\* Two batch sweeps and a /me read ran together on two expired records, an
\* expired trial among them, and all have answered.
C15_Witness ==
    /\ SweepsDone
    /\ Cardinality(sweep.batch) = 2
    /\ sweep.lazy # NullT
    /\ Len(sweep.start) = 2
    /\ \A i \in 1 .. 2 :
          /\ shouldExpireSubscription(sweep.start[i], 1500)
          /\ subscriptions[i].status = "canceled"
    /\ \E i \in 1 .. 2 : sweep.start[i].status = "trialing"

\* C16. A /me read by a user with an academic address writes nothing of
\* the overlay: no step of the read adds a row, and a row it changes is the
\* user's, set to canceled by the lazy check; no stored row ever carries
\* the plan of the overlay.
C16_OverlayNeverPersists ==
    /\ [](\A i \in 1 .. Len(subscriptions) :
            subscriptions[i].plan_id # "academia")
    /\ [][(me # NoRequest /\ me' # me /\ isAcademiaEmail(me.email)) =>
            /\ Len(subscriptions') = Len(subscriptions)
            /\ \A i \in 1 .. Len(subscriptions) :
                  \/ subscriptions'[i] = subscriptions[i]
                  \/ /\ me.pc = "expire"
                     /\ subscriptions[i].user_id = me.user
                     /\ subscriptions'[i]
                          = Merge(subscriptions[i],
                                  [status |-> "canceled",
                                   updated_at |-> me.now])]_vars

\* A read answered with the overlay after its lazy check canceled the
\* record: the response says active, the table says canceled.
C16_Witness ==
    /\ out.op = "me"
    /\ out.http = 200
    /\ out.did.expired
    /\ out.did.subscription.user_id = "u1"
    /\ out.did.subscription.plan_id = "academia"
    /\ Len(subscriptions) = 1
    /\ subscriptions[1].status = "canceled"

\* C17. A checkout request of a user whose stored status is active is
\* answered 200 with already_subscribed, and creates neither a Checkout
\* session nor a customer. This is the claim as the specification states
\* it; the handler does not read the status.
C17_AlreadySubscribed ==
    LET
        \* A checkout request of the user was answered from the select on: it found
        \* the stored customer and wrote nothing, so the table is the one it read.
        CheckoutFoundCustomer ==
            /\ out.op = "checkout"
            /\ out.did.write = "none"
            /\ out.did.customer # Null
        \* The stored status of a user of the model is active.
        StoredActive ==
            \E i \in 1 .. Len(subscriptions) :
               /\ subscriptions[i].user_id \in Users
               /\ subscriptions[i].status = "active"
    IN
        (CheckoutFoundCustomer /\ StoredActive) =>
           /\ out.http = 200
           /\ out.did.error = "already_subscribed"
           /\ ~out.did.session
           /\ ~out.did.created

\* C18. A checkout request of a user for whom a customer id is stored (as
\* after a request that created and saved one) creates no customer and
\* writes nothing: it is answered from the record, with a Checkout session
\* for the stored customer when it creates one, and the table is as it was.
C18_CustomerCreatedOnce ==
    [][LET \* The customer id stored for the user of the request, Null
           \* without one.
           StoredCustomer ==
               IF \E i \in 1 .. Len(subscriptions) :
                     /\ subscriptions[i].user_id = checkout.user
                     /\ subscriptions[i].stripe_customer_id # Null
               THEN subscriptions[
                      CHOOSE i \in 1 .. Len(subscriptions) :
                        /\ subscriptions[i].user_id = checkout.user
                        /\ subscriptions[i].stripe_customer_id # Null]
                      .stripe_customer_id
               ELSE Null
       IN  (/\ checkout # NoRequest
            /\ checkout.pc = "start"
            /\ checkout.method = "POST"
            /\ checkout.user # Null
            /\ checkout' # checkout
            /\ StoredCustomer # Null) =>
              /\ checkout' = NoRequest
              /\ out'.op = "checkout"
              /\ ~out'.did.created
              /\ out'.did.write = "none"
              /\ out'.did.session => out'.did.customer = StoredCustomer
              /\ subscriptions' = subscriptions]_vars

\* A request was answered with a session for the customer that an earlier
\* request created and saved: the record is the one the insert of the
\* handler leaves.
C18_Witness ==
    /\ out.op = "checkout"
    /\ out.did.session
    /\ ~out.did.created
    /\ out.did.customer = "cus_1"
    /\ subscriptions
         = <<[ColumnDefaults EXCEPT !.user_id = "u1",
                                    !.stripe_customer_id = "cus_1"]>>

\* C19. The portal request of a user does not depend on the stored status;
\* without a stored customer id (no record, or a null id) it is answered
\* 400 no_stripe_customer and creates no session; with one, and the select
\* and Stripe answering, it creates a session for the stored id; it never
\* changes the table.
C19_PortalNeedsCustomerOnly ==
    LET
        \* The table with the status of every row replaced.
        WithStatus(table, status) ==
            [i \in 1 .. Len(table) |-> [table[i] EXCEPT !.status = status]]
    IN
        /\ (out = Idle /\ ClientsIdle) =>
              \A user \in Users, selectFails \in BOOLEAN, portalFails \in BOOLEAN :
                 LET a == billingPortal(subscriptions, "POST", user, selectFails,
                                        portalFails)
                     stored == DbSelect(subscriptions, user, FALSE)
                 IN  /\ a.table = subscriptions
                     /\ \A status \in SubscriptionStatus :
                           LET b == billingPortal(
                                      WithStatus(subscriptions, status), "POST",
                                      user, selectFails, portalFails)
                           IN  b.http = a.http /\ b.did = a.did
                     /\ (~selectFails /\ ~stored.error) =>
                           IF stored.data = NoRow
                              \/ stored.data.stripe_customer_id = Null
                           THEN /\ a.http = 400
                                /\ a.did.error = "no_stripe_customer"
                                /\ ~a.did.session
                           ELSE /\ a.did.customer
                                     = stored.data.stripe_customer_id
                                /\ ~portalFails =>
                                      a.http = 200 /\ a.did.session
        /\ (out.op = "portal" /\ out.did.session) =>
              \E i \in 1 .. Len(subscriptions) :
                 /\ subscriptions[i].user_id \in Users
                 /\ subscriptions[i].stripe_customer_id = out.did.customer

\* A portal session was created for the customer of a record that is not
\* active.
C19_Witness ==
    /\ out.op = "portal"
    /\ out.http = 200
    /\ out.did.session
    /\ out.did.customer = "cus_1"
    /\ Len(subscriptions) = 1
    /\ subscriptions[1].status = "canceled"

\* checkout.session.completed for u1, cus_1 and sub_1 whose subscription
\* Stripe returns as trialing, with a period end and the price of the plan
\* starter, every call succeeding.
EndToEndEvents ==
    {e \in CheckoutEvents :
       /\ e.data.metadata_user_id = "u1"
       /\ e.data.customer = "cus_1"
       /\ e.data.subscription = "sub_1"
       /\ ~e.got.fails
       /\ e.got.sub.status = "trialing"
       /\ e.got.sub.current_period_end > 0
       /\ e.got.sub.price = "price_A"
       /\ ~e.lookupFails
       /\ ~e.dbFails}

\* The record the scenario leaves for a period end T in seconds: the
\* columns the claim names.
EndToEndRecord(row, T) ==
    /\ row.user_id = "u1"
    /\ row.stripe_customer_id = "cus_1"
    /\ row.stripe_subscription_id = "sub_1"
    /\ row.status = "trialing"
    /\ row.plan_id = "starter"
    /\ row.current_period_end = T * 1000

\* C20. Handling checkout.session.completed with metadata.user_id u1,
\* customer cus_1, subscription sub_1, the subscription fetched as trialing
\* with period end T and the price of plan starter, leaves one record of
\* u1 with cus_1, sub_1, trialing, starter and T, on a table with a record
\* of u1 and on one without.
C20_EndToEndCheckout ==
    /\ (out = Idle /\ ClientsIdle) =>
          \A e \in EndToEndEvents :
             LET r == handleEvent(subscriptions, e)
                 rows == RowsOf(r.table, "u1")
             IN  /\ ~r.threw
                 /\ Cardinality(rows) = 1
                 /\ \A i \in rows :
                       EndToEndRecord(r.table[i],
                                      e.got.sub.current_period_end)
    /\ (/\ out.op = "checkout.session.completed"
        /\ out.did.upsert = "ok"
        /\ out.did.params.userId = "u1"
        /\ out.did.params.subscriptionId = "sub_1"
        /\ out.did.stripeStatus = "trialing"
        /\ out.did.priceId = "price_A"
        /\ out.did.params.planId = "starter"
        /\ out.did.params.currentPeriodEnd # UndefT) =>
          \E i \in 1 .. Len(subscriptions), T \in Epochs :
             EndToEndRecord(subscriptions[i], T)

\* The event was handled on a table that held a canceled record of u1 with
\* another period end, and the record is the one of the scenario.
C20_Witness ==
    /\ out.op = "checkout.session.completed"
    /\ out.did.upsert = "ok"
    /\ out.did.stripeStatus = "trialing"
    /\ out.did.priceId = "price_A"
    /\ out.did.params.planId = "starter"
    /\ Len(subscriptions) = 1
    /\ EndToEndRecord(subscriptions[1], 1)
    /\ subscriptions[1].updated_at # NullT

\* C21. A checkout.session.completed event delivered twice, Stripe
\* answering both handlers alike, leaves the table the first delivery left:
\* one row of the user at most, the same values, and the second delivery is
\* answered and upserts as the first.
C21_DuplicateDelivery ==
    out.op = "checkout.session.completed.twice" =>
       /\ subscriptions = out.did.once
       /\ \A u \in Users : Cardinality(RowsOf(subscriptions, u)) <= 1
       /\ out.did.second = out.did.first
       /\ out.did.answers[2] = out.did.answers[1]

\* The event was delivered twice on a table without a record of the user,
\* and the first delivery created the record.
C21_Witness ==
    /\ out.op = "checkout.session.completed.twice"
    /\ out.did.before = <<>>
    /\ out.did.first.upsert = "ok"
    /\ Len(out.did.once) = 1
    /\ Len(subscriptions) = 1

C23_MetadataBeforeCustomer ==
    out.op = "getUserIdFromCustomer" =>
       /\ out.did.subscription.metadata_user_id # Null =>
             /\ out.did.result.userId = out.did.subscription.metadata_user_id
             /\ ~out.did.result.retrieved
       /\ out.did.result.retrieved <=>
             /\ out.did.subscription.metadata_user_id = Null
             /\ out.did.customerId # Null

\* The subscription is tagged with one user, its customer with another.
C23_Witness ==
    /\ out.op = "getUserIdFromCustomer"
    /\ out.did.customerId # Null
    /\ out.did.subscription.metadata_user_id = "u1"
    /\ out.did.customerMeta = "u2"
    /\ out.did.result.userId = "u1"

\* checkout.session.completed events whose subscription is fetched as
\* active, for a session that names its user and its customer.
RevivingEvents ==
    {e \in CheckoutEvents :
       /\ e.data.metadata_user_id # Null
       /\ e.data.customer # Null
       /\ e.data.subscription # Null
       /\ ~e.got.fails
       /\ e.got.sub.status = "active"
       /\ ~e.dbFails}

\* C24. No step of a sweep, lazy or batch, changes a record whose status is
\* canceled; checkout.session.completed with a subscription fetched as
\* active sets a canceled record to active. This is the claim as the
\* specification states it; the update of the lazy check names the user
\* only, not the status it read.
C24_CanceledUntilProviderEvent ==
    /\ []((out = Idle /\ ClientsIdle) =>
            \A e \in RevivingEvents :
               LET r == handleEvent(subscriptions, e)
               IN  \A i \in RowsOf(subscriptions, e.data.metadata_user_id) :
                      subscriptions[i].status = "canceled" =>
                         r.table[i].status = "active")
    /\ [][SweepStep =>
            /\ Len(subscriptions') = Len(subscriptions)
            /\ \A i \in 1 .. Len(subscriptions) :
                  subscriptions[i].status = "canceled" =>
                     subscriptions'[i] = subscriptions[i]]_vars

\* C25, as stated. shouldExpireSubscription(record, now) is true exactly
\* when the status is not canceled, the period end is set, parses and is
\* before now, and the status is trialing or cancel_at_period_end is true;
\* it is false when the period end equals now, and false when
\* cancel_at_period_end is null.
C25_ShouldExpireAsStated ==
    out.op = "shouldExpireSubscription" =>
       /\ out.did.result <=>
             /\ out.did.subscription.status # "canceled"
             /\ out.did.subscription.current_period_end
                  \notin {NullT, InvalidT}
             /\ out.did.subscription.current_period_end < out.did.now
             /\ \/ out.did.subscription.status = "trialing"
                \/ out.did.subscription.cancel_at_period_end = "true"
       /\ out.did.subscription.current_period_end = out.did.now =>
             ~out.did.result
       /\ out.did.subscription.cancel_at_period_end = Null =>
             ~out.did.result

\* C25, amended. shouldExpireSubscription(record, now) is true exactly
\* when the status is not canceled, the period end is set, parses and is
\* before now, and the status is trialing or cancel_at_period_end is true;
\* it is false when the period end equals now, and false when
\* cancel_at_period_end is null and the status is not trialing.
C25_ShouldExpire ==
    out.op = "shouldExpireSubscription" =>
       /\ out.did.result <=>
             /\ out.did.subscription.status # "canceled"
             /\ out.did.subscription.current_period_end
                  \notin {NullT, InvalidT}
             /\ out.did.subscription.current_period_end < out.did.now
             /\ \/ out.did.subscription.status = "trialing"
                \/ out.did.subscription.cancel_at_period_end = "true"
       /\ out.did.subscription.current_period_end = out.did.now =>
             ~out.did.result
       /\ (/\ out.did.subscription.cancel_at_period_end = Null
           /\ out.did.subscription.status # "trialing") =>
             ~out.did.result

\* A trial past its period end whose cancel_at_period_end is null expires.
C25_Witness ==
    /\ out.op = "shouldExpireSubscription"
    /\ out.did.subscription.status = "trialing"
    /\ out.did.subscription.cancel_at_period_end = Null
    /\ out.did.subscription.current_period_end < out.did.now
    /\ out.did.subscription.current_period_end \notin {NullT, InvalidT}
    /\ out.did.result

\* C26. On every table and at every instant, the records the two updates
\* of the batch sweep match, the second on the table the first leaves, are
\* the records shouldExpireSubscription holds for; the sweep sets them to
\* canceled, and shouldExpireSubscription holds for no record of the table
\* it leaves.
C26_BatchIsLazy ==
    \A now \in NowValues :
       LET canceled == [status |-> "canceled", updated_at |-> now]
           first == DbUpdate(subscriptions, canceled,
                             PeriodEndRows(subscriptions, now))
           matched == PeriodEndRows(subscriptions, now)
                        \cup TrialRows(first, now)
           swept == SweepOnce(subscriptions, now)
       IN  /\ matched = {i \in 1 .. Len(subscriptions) :
                           shouldExpireSubscription(subscriptions[i], now)}
           /\ \A i \in 1 .. Len(subscriptions) :
                 /\ i \in matched => swept[i].status = "canceled"
                 /\ i \notin matched => swept[i] = subscriptions[i]
                 /\ ~shouldExpireSubscription(swept[i], now)

\* A batch sweep has run its two updates on a table with a flagged record
\* and a trial, both past their period end: one each, both canceled.
C26_Witness ==
    /\ cron # NoRequest
    /\ cron.pc = "count"
    /\ cron.byPeriodEnd = 1
    /\ cron.trials = 1
    /\ Len(sweep.start) = 2
    /\ \A i \in 1 .. 2 :
          /\ shouldExpireSubscription(sweep.start[i], cron.now)
          /\ subscriptions[i].status = "canceled"
          /\ subscriptions[i].updated_at = cron.now
    /\ \E i \in 1 .. 2 :
          /\ sweep.start[i].status = "trialing"
          /\ sweep.start[i].cancel_at_period_end = "false"

\* C27. A step of a sweep, lazy or batch, leaves the table with the rows it
\* had, and a row it changes has status canceled afterwards and every
\* column but status and updated_at as before: user, customer id,
\* subscription id, plan_id, current_period_end, cancel_at_period_end and
\* created_at.
C27_SweepWritesStatusOnly ==
    [][SweepStep =>
         /\ Len(subscriptions') = Len(subscriptions)
         /\ \A i \in 1 .. Len(subscriptions) :
               \/ subscriptions'[i] = subscriptions[i]
               \/ /\ subscriptions'[i].status = "canceled"
                  /\ \A c \in Columns \ {"status", "updated_at"} :
                        subscriptions'[i][c] = subscriptions[i][c]]_vars

\* The lazy check has just canceled a record that carries a customer, a
\* subscription, a plan, a period end and the flag.
C27_Witness ==
    /\ me # NoRequest
    /\ me.pc = "refresh"
    /\ me.subscription.status = "active"
    /\ \E i \in RowsOf(subscriptions, me.user) :
          /\ subscriptions[i].status = "canceled"
          /\ subscriptions[i].updated_at = me.now
          /\ subscriptions[i].stripe_customer_id = "cus_1"
          /\ subscriptions[i].stripe_subscription_id = "sub_1"
          /\ subscriptions[i].plan_id = "starter"
          /\ subscriptions[i].cancel_at_period_end = "true"
          /\ subscriptions[i].current_period_end
               = me.subscription.current_period_end

\* C28. A /me read by a user with an academic address answers with a
\* subscription that is active, of plan academia and without period end
\* whenever the user has no record or the record, as the lazy check of the
\* read left it, is not active. This is the claim as the specification
\* states it; the handler tests the status of the record it read before
\* the lazy check.
C28_OverlayAfterSweep ==
    [][(/\ me # NoRequest
        /\ isAcademiaEmail(me.email)
        /\ out'.op = "me"
        /\ out'.http = 200
        /\ \A i \in RowsOf(subscriptions, me.user) :
              subscriptions[i].status # "active") =>
          /\ out'.did.subscription # NoRow
          /\ out'.did.subscription.status = "active"
          /\ out'.did.subscription.plan_id = "academia"
          /\ out'.did.subscription.current_period_end = NullT]_vars

\* C29. A /me read of a user with a record answers either with the overlay
\* or with the record: the overlay has status, plan_id and
\* current_period_end replaced and every other column (customer id,
\* subscription id, cancel_at_period_end, created_at, updated_at) as the
\* stored record has it after the lazy check of the read; a response that
\* is not the overlay is that stored record. This is the claim as the
\* specification states it; the handler copies the record it read before
\* the lazy check.
C29_OverlayCopiesSweptRecord ==
    [][(/\ me # NoRequest
        /\ out'.op = "me"
        /\ out'.http = 200
        /\ DOMAIN out'.did.subscription = Columns) =>
          \A i \in RowsOf(subscriptions, me.user) :
             IF out'.did.subscription.plan_id = "academia"
             THEN /\ out'.did.subscription.status = "active"
                  /\ out'.did.subscription.current_period_end = NullT
                  /\ \A c \in Columns \ {"status", "plan_id",
                                          "current_period_end"} :
                        out'.did.subscription[c] = subscriptions[i][c]
             ELSE out'.did.subscription = subscriptions[i]]_vars

\* checkout.session.completed events that name user and customer and whose
\* subscription cannot be retrieved; and events that lack user or customer.
FetchFailedEvents ==
    {e \in CheckoutEvents :
       /\ e.data.metadata_user_id # Null
       /\ e.data.customer # Null
       /\ e.data.subscription # Null
       /\ e.got.fails
       /\ ~e.dbFails}

IncompleteSessions ==
    {e \in CheckoutEvents :
       e.data.metadata_user_id = Null \/ e.data.customer = Null}

\* C30. Handling checkout.session.completed that names user and customer
\* while the subscription cannot be retrieved leaves one record of the user
\* with the customer and the subscription of the session and status
\* active, with plan_id and current_period_end as stored before (unset
\* when there was no record), and answers 200; handling one that lacks
\* user or customer writes nothing, retrieves no customer, and answers 200.
C30_CheckoutDegrades ==
    (out = Idle /\ ClientsIdle) =>
       /\ \A e \in FetchFailedEvents :
             LET r == handleEvent(subscriptions, e)
                 u == e.data.metadata_user_id
                 old == IF RowsOf(subscriptions, u) = {} THEN ColumnDefaults
                        ELSE subscriptions[CHOOSE i \in RowsOf(subscriptions, u) : TRUE]
             IN  /\ ~r.threw
                 /\ r.upsert = "ok"
                 /\ Cardinality(RowsOf(r.table, u)) = 1
                 /\ \A i \in RowsOf(r.table, u) :
                       /\ r.table[i].stripe_customer_id = e.data.customer
                       /\ r.table[i].stripe_subscription_id
                            = e.data.subscription
                       /\ r.table[i].status = "active"
                       /\ r.table[i].current_period_end
                            = old.current_period_end
                       /\ r.table[i].plan_id = old.plan_id
       /\ \A e \in IncompleteSessions :
             LET r == handleEvent(subscriptions, e)
             IN  /\ ~r.threw
                 /\ r.upsert = "none"
                 /\ ~r.retrieved
                 /\ r.table = subscriptions

\* A session was handled without its subscription: the record is active
\* with the session's customer and keeps the plan and the period end it
\* had, which the handler did not write.
C30_Witness ==
    /\ out.op = "checkout.session.completed"
    /\ out.http = 200
    /\ out.did.upsert = "ok"
    /\ out.did.params.subscriptionId # Null
    /\ out.did.priceId = Undef
    /\ out.did.params.planId = Undef
    /\ out.did.params.currentPeriodEnd = UndefT
    /\ Len(subscriptions) = 1
    /\ subscriptions[1].status = "active"
    /\ subscriptions[1].stripe_customer_id = out.did.params.customerId
    /\ subscriptions[1].plan_id = "starter"
    /\ subscriptions[1].current_period_end = 1000

\* Invoice events of a customer tagged with the user, with and without a
\* subscription reference, the subscription retrieved or not, and every
\* pair of a line item price of the invoice and a price of the
\* subscription; every statement succeeds.
PricedInvoiceEvents ==
    UNION {
      {Event(kind, Invoice(ref, customer, linePrice), got, user, FALSE,
             FALSE) :
         kind \in {"invoice.payment_succeeded", "invoice.payment_failed"},
         user \in Users, linePrice \in PriceIds \cup {Null},
         got \in Retrieved(ref, customer, {Null}, PriceIds \cup {Null})} :
      ref \in SubscriptionIds \cup {Null}, customer \in CustomerIds}

C33_EveryWriteAdvancesUpdatedAt ==
    [][\A i \in 1 .. Len(subscriptions) :
          (i <= Len(subscriptions') /\ subscriptions'[i] # subscriptions[i]) =>
             \/ subscriptions'[i].updated_at # subscriptions[i].updated_at
             \/ me # NoRequest /\ subscriptions'[i].updated_at = me.now
             \/ cron # NoRequest /\ subscriptions'[i].updated_at = cron.now]_vars

\* ------------------------------------------------------------------------
\* C34: authentication before every side effect
\* ------------------------------------------------------------------------

\* C34. A request to /me, to the checkout builder or to the portal builder
\* that passes the method check without a valid bearer token is answered 401
\* in its first step, before the select of the record, with the table as it
\* was, no Stripe customer and no session created, whatever the select and
\* Stripe would have answered. On /api/projects a request without user is
\* answered 401 before checkSubscription runs, and a user whom
\* checkSubscription refuses is answered 403 subscription_required: a 403 is
\* only ever given to an authenticated user.
C34_AuthenticationFirst ==
    /\ [](/\ (out.op = "checkout" /\ out.http = 401) =>
                /\ ~out.did.created /\ ~out.did.session
                /\ out.did.write = "none"
          /\ (out.op = "portal" /\ out.http = 401) => ~out.did.session
          /\ (out.op = "projects" /\ out.http = 401) =>
                out.did.user = Null /\ ~out.did.selected /\ ~out.did.granted
          /\ (out.op = "projects" /\ out.http = 403) =>
                /\ out.did.user \in Users
                /\ out.did.error = "subscription_required"
                /\ out.did.selected /\ ~out.did.granted
          /\ (out = Idle /\ ClientsIdle) =>
                \A selectFails \in BOOLEAN, fails \in BOOLEAN :
                   /\ billingPortal(subscriptions, "POST", Null, selectFails,
                                    fails)
                        = PortalAnswer(subscriptions, 401,
                                       PortalDid("not_authenticated", FALSE,
                                                 Null))
                   /\ \A method \in {"GET", "POST"}, email \in Emails,
                         rest \in {200, 400, 500} :
                         /\ projects(subscriptions, method, Null, email,
                                     selectFails, rest).http = 401
                         /\ \A user \in Users :
                               LET a == projects(subscriptions, method, user,
                                                 email, selectFails, rest)
                               IN  /\ a.http # 401
                                   /\ a.http = 403 <=>
                                         ~checkSubscription(subscriptions,
                                                            user, email,
                                                            selectFails)
                                   /\ a.did.granted <=> a.http = rest)
    /\ [][/\ (/\ checkout # NoRequest /\ checkout.pc = "start"
              /\ checkout.method = "POST" /\ checkout.user = Null
              /\ checkout' # checkout) =>
                /\ out'.op = "checkout" /\ out'.http = 401
                /\ checkout' = NoRequest
                /\ subscriptions' = subscriptions
          /\ (/\ me # NoRequest /\ me.pc = "start"
              /\ me.method = "GET" /\ me.user = Null
              /\ me' # me) =>
                /\ out'.op = "me" /\ out'.http = 401
                /\ out'.did = MeDid(NoRow, FALSE)
                /\ me' = NoRequest
                /\ subscriptions' = subscriptions]_vars

\* A projects request of a user whose record is canceled was answered 403,
\* after checkSubscription ran.
C34_Witness ==
    /\ out.op = "projects"
    /\ out.http = 403
    /\ out.did.selected
    /\ \E i \in RowsOf(subscriptions, out.did.user) :
          subscriptions[i].status = "canceled"

\* ------------------------------------------------------------------------
\* C40: the entitlement guard and the expiry rule
\* ------------------------------------------------------------------------

\* C40. A user without academic address whose stored record satisfies
\* shouldExpireSubscription at the instant of the request is answered 403 by
\* the guard of /api/projects, and the guard lets a request pass only for a
\* stored status active or trialing that is not expired, or for an academic
\* address.
C40_GuardAgreesWithExpiry ==
    (out = Idle /\ ClientsIdle) =>
       \A user \in Users, email \in Emails, now \in NowValues :
          LET subscription == DbSelect(subscriptions, user, FALSE).data
              a == projects(subscriptions, "GET", user, email, FALSE, 200)
              expired == /\ subscription # NoRow
                         /\ shouldExpireSubscription(subscription, now)
          IN  /\ (expired /\ ~isAcademiaEmail(email)) => a.http = 403
              /\ a.did.granted =>
                    \/ isAcademiaEmail(email)
                    \/ /\ subscription # NoRow
                       /\ subscription.status \in {"active", "trialing"}
                       /\ ~expired

\* ------------------------------------------------------------------------
\* C35: the failures of the checkout builder
\* ------------------------------------------------------------------------

\* C35. A checkout request whose select of the record fails, or whose insert
\* or update of the new customer id fails, is answered 500 without a
\* Checkout session, by the step that failed and with the table as it was. A
\* request whose Checkout session cannot be created is answered 500, and the
\* customer id it saved before is in the user's record when it answers. A
\* Checkout session is only created by a request that is answered 200.
C35_CheckoutFailures ==
    /\ [](out.op = "checkout" =>
            /\ out.did.error \in {"subscriptions_select_failed",
                                  "subscriptions_insert_failed",
                                  "subscriptions_update_failed"}
                  => out.http = 500 /\ ~out.did.session
            /\ out.did.writeFailed =>
                  /\ out.http = 500 /\ ~out.did.session
                  /\ out.did.error \in {"subscriptions_insert_failed",
                                        "subscriptions_update_failed"}
            /\ out.did.error = "stripe_error" =>
                  out.http = 500 /\ ~out.did.session
            /\ out.did.session => out.http = 200 /\ out.did.error = Null)
    /\ [][/\ (/\ checkout # NoRequest
              /\ out'.op = "checkout"
              /\ out'.did.error \in {"subscriptions_select_failed",
                                     "subscriptions_insert_failed",
                                     "subscriptions_update_failed"}) =>
                subscriptions' = subscriptions
          /\ (/\ checkout # NoRequest /\ checkout.pc = "persist"
              /\ out'.op = "checkout"
              /\ out'.did.error = "stripe_error") =>
                /\ out'.did.created
                /\ out'.did.write \in {"insert", "update"}
                /\ out'.did.customer = checkout.customer
                /\ RowsOf(subscriptions', checkout.user) # {}
                /\ \A i \in RowsOf(subscriptions', checkout.user) :
                      subscriptions'[i].stripe_customer_id =
                         checkout.customer]_vars

\* A checkout request inserted the record with the new customer id, the
\* Checkout session failed, and the record holds the customer id.
C35_Witness ==
    /\ out.op = "checkout"
    /\ out.http = 500
    /\ out.did.error = "stripe_error"
    /\ out.did.write = "insert"
    /\ \E i \in 1 .. Len(subscriptions) :
          /\ subscriptions[i].stripe_customer_id = out.did.customer
          /\ subscriptions[i].status = "none"

\* ------------------------------------------------------------------------
\* C36: the lazy sweep and a renewal in between
\* ------------------------------------------------------------------------

\* C36. The lazy sweep of /me sets status canceled only on a record that
\* satisfies shouldExpireSubscription when the update runs: a record that a
\* webhook event renewed (status active, not flagged) between the select of
\* /me and the update is left as the event wrote it.
C36_LazySweepChecksAtWrite ==
    [][(me # NoRequest /\ me.pc = "expire" /\ me' # me) =>
          \A i \in 1 .. Len(subscriptions) :
             (/\ i <= Len(subscriptions')
              /\ subscriptions[i].status # "canceled"
              /\ subscriptions'[i].status = "canceled")
                => shouldExpireSubscription(subscriptions[i], me.now)]_vars

\* Two checkout requests of a user arrive together; one runs, the other
\* waits.
CheckoutsArrive ==
    /\ ClientsIdle
    /\ out = Idle
    /\ sweep = NoSweep
    /\ \E user \in Users :
         LET request == [method |-> "POST", user |-> user, pc |-> "start",
                         hadRow |-> FALSE, customer |-> Null]
         IN  /\ checkout' = request
             /\ sweep' = [NoSweep EXCEPT !.start = subscriptions,
                                         !.waiting = request]
    /\ UNCHANGED <<subscriptions, me, cron, out>>

\* The checkout request that waits takes the place of the one that runs (or
\* of the one that has answered).
CheckoutYields ==
    /\ out = Idle
    /\ sweep.waiting # NoRequest
    /\ checkout' = sweep.waiting
    /\ sweep' = [sweep EXCEPT !.waiting = checkout]
    /\ UNCHANGED <<subscriptions, me, cron, out>>

\* The tables the requests meet: the empty one, and the ones a subscription
\* event of an active subscription leaves on it (a record of the user with
\* or without customer id).
InitCheckouts ==
    LET events == {e \in SubscriptionUpdatedEvents :
                     /\ e.data.metadata_user_id # Null
                     /\ e.data.status = "active"
                     /\ e.data.cancel_at_period_end = "false"
                     /\ e.data.price = Null
                     /\ ~e.dbFails}
    IN  /\ subscriptions \in
              {<<>>} \cup {handleEvent(<<>>, e).table : e \in events}
        /\ checkout = NoRequest
        /\ me = NoRequest
        /\ cron = NoRequest
        /\ out = Idle
        /\ sweep = NoSweep

NextCheckouts ==
    \/ ResponseSent
    \/ CheckoutsArrive
    \/ CheckoutYields
    \/ CheckoutReads
    \/ CheckoutPersists

\* Two checkout requests of a user that run together, in any order of their
\* statements, on a table that subscription events left.
SpecCheckouts == InitCheckouts /\ [][NextCheckouts]_vars

\* ------------------------------------------------------------------------
\* C37: checkout requests that run together
\* ------------------------------------------------------------------------

\* C37. Checkout requests of a user without stored customer id that run
\* together create at most one Stripe customer (never are two requests in
\* flight that each created one); none of them meets a record of the user
\* at its insert (inserted by the other request since its select); and no
\* request replaces a customer id that is stored, so
\* that a request that succeeds used the id that ends up stored.
C37_ConcurrentCheckouts ==
    /\ [](/\ ~(/\ checkout # NoRequest /\ checkout.customer # Null
               /\ "customer" \in DOMAIN sweep.waiting
               /\ sweep.waiting.customer # Null)
          /\ (/\ checkout # NoRequest /\ checkout.pc = "persist"
              /\ ~checkout.hadRow) =>
                ~DbInsert(subscriptions,
                          [user_id |-> checkout.user,
                           stripe_customer_id |-> checkout.customer,
                           status |-> "none"]).error)
    /\ [][(/\ checkout # NoRequest /\ checkout.pc = "persist"
           /\ subscriptions' # subscriptions) =>
             \A i \in RowsOf(subscriptions, checkout.user) :
                Missing(subscriptions[i].stripe_customer_id)]_vars

\* ------------------------------------------------------------------------
\* C38: cancel_at_period_end and events without subscription state
\* ------------------------------------------------------------------------

\* The checkout and invoice events whose subscription was not obtained: the
\* event names no subscription, or stripe.subscriptions.retrieve failed.
UnfetchedEvents ==
    {e \in CheckoutEvents \cup InvoicePaymentSucceededEvents
             \cup InvoicePaymentFailedEvents :
       /\ e.got = NotAsked \/ e.got.fails
       /\ ~e.dbFails}

\* C38. A checkout or invoice event whose subscription state was not
\* obtained leaves the stored cancel_at_period_end as it is: a record
\* flagged true is flagged true after the event is handled.
C38_UnfetchedKeepsFlag ==
    (out = Idle /\ ClientsIdle) =>
       \A e \in UnfetchedEvents :
          LET r == handleEvent(subscriptions, e)
          IN  \A i \in 1 .. Len(subscriptions) :
                 subscriptions[i].cancel_at_period_end = "true" =>
                    /\ i <= Len(r.table)
                    /\ r.table[i].cancel_at_period_end = "true"

\* ------------------------------------------------------------------------
\* C39: the records of other users
\* ------------------------------------------------------------------------

\* The table holds the record of another user, u2: a trial past its period
\* end, flagged for cancellation.
InitIsolation ==
    /\ subscriptions = <<SweepRow("u2", "trialing", "true", 1000)>>
    /\ checkout = NoRequest
    /\ me = NoRequest
    /\ cron = NoRequest
    /\ out = Idle
    /\ sweep = NoSweep

\* The endpoints, used by u1 and by events that name u1, on a table that
\* holds the record of u2.
SpecIsolation == InitIsolation /\ [][Next]_vars

\* C39. A webhook event resolved to a user, a /me read, a checkout request
\* and a portal request of a user neither create nor change nor delete the
\* record of another user: every step that is not a step of the batch sweep
\* leaves the records of u2 as they are, at their places, and adds no record
\* of u2. Only the batch sweep writes the record of a user other than the
\* one a request or event names.
C39_OtherUsersUntouched ==
    /\ [](\A i \in 1 .. Len(subscriptions) :
            subscriptions[i].user_id \in {"u1", "u2"})
    /\ [][cron' = cron =>
            /\ Len(subscriptions') >= Len(subscriptions)
            /\ \A i \in 1 .. Len(subscriptions') :
                  IF i <= Len(subscriptions)
                  THEN \/ subscriptions'[i] = subscriptions[i]
                       \/ /\ subscriptions[i].user_id = "u1"
                          /\ subscriptions'[i].user_id = "u1"
                  ELSE subscriptions'[i].user_id = "u1"]_vars

\* A /me read of u1 canceled the record of u1, and the expired trial of u2
\* is stored as it was.
C39_Witness ==
    /\ out.op = "me"
    /\ out.did.expired
    /\ \E i \in RowsOf(subscriptions, "u1") :
          subscriptions[i].status = "canceled"
    /\ \E j \in RowsOf(subscriptions, "u2") :
          subscriptions[j] = SweepRow("u2", "trialing", "true", 1000)

====
